---- MODULE Spec2Model ----
(***************************************************************************)
(* Math Routing Agent: the knowledge store (MockVectorDB), the content     *)
(* guard (AIGuardRails), the web-search fallback (MCPWebSearch), the       *)
(* in-memory storage (MemStorage) and the two versions of                  *)
(* MathRoutingAgent.solveProblem found in the repository: the routing      *)
(* version (specification Spec) and the solver version (SpecSolver).       *)
(*                                                                         *)
(* Strings are sequences of one-character strings, so that toLowerCase,    *)
(* split(' '), includes and charCodeAt are computed, not assumed.          *)
(***************************************************************************)
EXTENDS Integers, Sequences, FiniteSets, TLC

(***************************************************************************)
(* State                                                                   *)
(***************************************************************************)

\* Requests that may be in flight together, and knowledge-store insertions.
MaxRequests == 2
MaxAdds == 1

Requests == 1..MaxRequests

VARIABLES
    problems,         \* MockVectorDB.problems
    mathProblems,     \* MemStorage.mathProblems, in insertion order
    systemActivities, \* MemStorage.systemActivities, in insertion order
    uuid,             \* the number of identifiers randomUUID has handed out
    req,              \* the POST /api/solve requests: position and locals
    added,            \* the arguments of the addProblem calls made so far
    lastSearch,       \* the last direct searchSimilarProblems call, its result
    simCall,          \* a direct calculateSimilarity call: arguments, result
    guardCall,        \* a direct validateMathematicalContent call
    feedbackEntries,  \* MemStorage.feedbackEntries, in insertion order
    now,              \* the clock new Date() reads, in milliseconds
    reply             \* the last answer of a feedback, status or listing call

vars == <<problems, mathProblems, systemActivities, uuid, req,
          added, lastSearch, simCall, guardCall, feedbackEntries, now, reply>>

(***************************************************************************)
(* Characters and strings                                                  *)
(***************************************************************************)
LowerLetters ==
    <<"a","b","c","d","e","f","g","h","i","j","k","l","m",
      "n","o","p","q","r","s","t","u","v","w","x","y","z">>

UpperLetters ==
    <<"A","B","C","D","E","F","G","H","I","J","K","L","M",
      "N","O","P","Q","R","S","T","U","V","W","X","Y","Z">>

Digits == <<"0","1","2","3","4","5","6","7","8","9">>

\* The other characters of the model's strings and their UTF-16 codes;
\* "sup2" and "sup3" stand for the superscript digits of the seed problems.
OtherChars == <<" ","(",")","*","+",",","-","/","<","=",">","_","sup2","sup3","^">>

OtherCodes == <<32, 40, 41, 42, 43, 44, 45, 47, 60, 61, 62, 95, 178, 179, 94>>

IndexOf(seq, c) == CHOOSE i \in DOMAIN seq : seq[i] = c

InSeq(seq, c) == \E i \in DOMAIN seq : seq[i] = c

\* String.prototype.charCodeAt for the characters the model uses.
charCodeAt(c) ==
    IF InSeq(LowerLetters, c) THEN 96 + IndexOf(LowerLetters, c)
    ELSE IF InSeq(UpperLetters, c) THEN 64 + IndexOf(UpperLetters, c)
    ELSE IF InSeq(Digits, c) THEN 47 + IndexOf(Digits, c)
    ELSE OtherCodes[IndexOf(OtherChars, c)]

\* String.prototype.toLowerCase
toLowerCase(s) ==
    [i \in DOMAIN s |->
        IF InSeq(UpperLetters, s[i])
        THEN LowerLetters[IndexOf(UpperLetters, s[i])]
        ELSE s[i]]

\* String.prototype.split(' '): cuts at every single space, keeps empty
\* pieces, and gives one empty piece for the empty string.
RECURSIVE SplitFrom(_, _, _)
SplitFrom(s, i, cur) ==
    IF i > Len(s) THEN <<cur>>
    ELSE IF s[i] = " " THEN <<cur>> \o SplitFrom(s, i + 1, <<>>)
    ELSE SplitFrom(s, i + 1, Append(cur, s[i]))

split(s) == SplitFrom(s, 1, <<>>)

\* String.prototype.includes
includes(s, k) ==
    \E i \in 0..(Len(s) - Len(k)) : \A j \in 1..Len(k) : s[i + j] = k[j]

\* String.prototype.substring(0, n)
substring(s, n) == IF Len(s) <= n THEN s ELSE SubSeq(s, 1, n)

(***************************************************************************)
(* MockVectorDB: hash, embedding, similarity                               *)
(***************************************************************************)

\* Length of an embedding. The code uses 384; the model keeps the same
\* construction on a shorter vector.
EmbeddingSize == 4

Half == 65536

\* One round of simpleHash: ((hash << 5) - hash) + char, then hash & hash,
\* the conversion to a signed 32-bit integer. Computed on 16-bit halves.
HashStep(hash, char) ==
    LET lo  == hash % Half
        hi  == (hash \div Half) % Half
        lo2 == 31 * lo + char
        hi2 == (31 * hi + (lo2 \div Half)) % Half
        lo3 == lo2 % Half
    IN  IF hi2 >= Half \div 2 THEN (hi2 - Half) * Half + lo3
        ELSE hi2 * Half + lo3

RECURSIVE HashFrom(_, _, _)
HashFrom(str, i, hash) ==
    IF i > Len(str) THEN hash
    ELSE HashFrom(str, i + 1, HashStep(hash, charCodeAt(str[i])))

Abs(x) == IF x < 0 THEN 0 - x ELSE x

simpleHash(str) == Abs(HashFrom(str, 1, 0))

\* Math.sin(x) * 0.1 at an integer argument, in fixed point: the sine at the
\* seventh roots of unity, times 4. As for the sine at integer radians, no
\* two arguments are opposite (the period is odd), so contributions of
\* different words never cancel in every dimension.
SinTable == <<0, 3, 4, 2, -2, -4, -3>>

SinTenth(x) == SinTable[(x % Len(SinTable)) + 1]

RECURSIVE SumWords(_, _, _)
SumWords(hashes, index, i) ==
    IF index > Len(hashes) THEN 0
    ELSE SinTenth((hashes[index] % Len(SinTable)) + i + (index - 1))
         + SumWords(hashes, index + 1, i)

\* The embedding had depended on the number of entries added to the store.
embeddingCountingAdds(text) ==
    LET words  == split(toLowerCase(text))
        hashes == [k \in DOMAIN words |-> simpleHash(words[k])]
    IN  [d \in 1..EmbeddingSize |-> SumWords(hashes, 1, d - 1 + Len(added))]

\* generateMockEmbedding: lower-case, split at spaces, and add to every
\* dimension i the sine of hash + i + index of every word.
generateMockEmbedding(text) ==
    LET words  == split(toLowerCase(text))
        hashes == [k \in DOMAIN words |-> simpleHash(words[k])]
    IN  [d \in 1..EmbeddingSize |-> SumWords(hashes, 1, d - 1)]

RECURSIVE SumProd(_, _, _)
SumProd(a, b, i) ==
    IF i > Len(a) THEN 0 ELSE a[i] * b[i] + SumProd(a, b, i + 1)

\* calculateSimilarity returns dotProduct / (sqrt(norm1) * sqrt(norm2)).
\* The quotient is kept as its three accumulators; the operators below read
\* it as the number the division yields.
calculateSimilarity(embedding1, embedding2) ==
    [dotProduct |-> SumProd(embedding1, embedding2, 1),
     norm1      |-> SumProd(embedding1, embedding1, 1),
     norm2      |-> SumProd(embedding2, embedding2, 1)]

\* 0 / 0 is NaN: a zero norm makes the dot product zero as well.
IsNaN(sim) == sim.norm1 = 0 \/ sim.norm2 = 0

\* sim > num / den, as IEEE compares: false when sim is NaN.
GreaterThan(sim, num, den) ==
    /\ ~IsNaN(sim)
    /\ sim.dotProduct > 0
    /\ den * den * sim.dotProduct * sim.dotProduct
         > num * num * sim.norm1 * sim.norm2

\* The sign of x.similarity - y.similarity for two results of one search
\* (norm1, the query's, is common to both); NaN when either is NaN.
SignSq(n) == IF n < 0 THEN 0 - n * n ELSE n * n

Minus(x, y) ==
    IF IsNaN(x) \/ IsNaN(y) THEN "NaN"
    ELSE LET l == SignSq(x.dotProduct) * y.norm2
             r == SignSq(y.dotProduct) * x.norm2
         IN  IF l > r THEN "positive" ELSE IF l < r THEN "negative" ELSE "zero"

(***************************************************************************)
(* Strings of the program and of the requests                              *)
(***************************************************************************)
\* "solve quadratic equation x^2 + 5x + 6 = 0"
SeedProblem1 ==
    <<"s","o","l","v","e"," ","q","u","a","d","r","a","t","i",
      "c"," ","e","q","u","a","t","i","o","n"," ","x","sup2"," ",
      "+"," ","5","x"," ","+"," ","6"," ","="," ","0">>

\* "quadratic equation solve"
SeedKey1 ==
    <<"q","u","a","d","r","a","t","i","c"," ","e","q","u","a",
      "t","i","o","n"," ","s","o","l","v","e">>

\* "find derivative of f(x) = 3x^3 + 2x^2 - 5x + 1"
SeedProblem2 ==
    <<"f","i","n","d"," ","d","e","r","i","v","a","t","i","v",
      "e"," ","o","f"," ","f","(","x",")"," ","="," ","3","x",
      "sup3"," ","+"," ","2","x","sup2"," ","-"," ","5","x"," ","+",
      " ","1">>

\* "derivative calculus power rule"
SeedKey2 ==
    <<"d","e","r","i","v","a","t","i","v","e"," ","c","a","l",
      "c","u","l","u","s"," ","p","o","w","e","r"," ","r","u",
      "l","e">>

\* "calculate area of triangle with sides 3, 4, 5"
SeedProblem3 ==
    <<"c","a","l","c","u","l","a","t","e"," ","a","r","e","a",
      " ","o","f"," ","t","r","i","a","n","g","l","e"," ","w",
      "i","t","h"," ","s","i","d","e","s"," ","3",","," ","4",
      ","," ","5">>

\* "triangle area geometry"
SeedKey3 ==
    <<"t","r","i","a","n","g","l","e"," ","a","r","e","a"," ",
      "g","e","o","m","e","t","r","y">>

\* "tell me about politics"
QPolitics ==
    <<"t","e","l","l"," ","m","e"," ","a","b","o","u","t"," ",
      "p","o","l","i","t","i","c","s">>

\* "Solve the POLITICS equation x = 2"
QSolvePolitics ==
    <<"S","o","l","v","e"," ","t","h","e"," ","P","O","L","I",
      "T","I","C","S"," ","e","q","u","a","t","i","o","n"," ",
      "x"," ","="," ","2">>

\* "hello there"
QHello ==
    <<"h","e","l","l","o"," ","t","h","e","r","e">>

\* "x = 2"
QLinear ==
    <<"x"," ","="," ","2">>

\* "Integral limit"
QIntegral ==
    <<"I","n","t","e","g","r","a","l"," ","l","i","m","i","t">>

\* "Quadratic equation solve"
QQuadratic ==
    <<"Q","u","a","d","r","a","t","i","c"," ","e","q","u","a",
      "t","i","o","n"," ","s","o","l","v","e">>

\* "Solve the quadratic equation x^2 + 5x + 6 = 0"
StoredProblem1 ==
    <<"S","o","l","v","e"," ","t","h","e"," ","q","u","a","d",
      "r","a","t","i","c"," ","e","q","u","a","t","i","o","n",
      " ","x","sup2"," ","+"," ","5","x"," ","+"," ","6"," ","=",
      " ","0">>

\* "Find the derivative of f(x) = 3x^3 + 2x^2 - 5x + 1"
StoredProblem2 ==
    <<"F","i","n","d"," ","t","h","e"," ","d","e","r","i","v",
      "a","t","i","v","e"," ","o","f"," ","f","(","x",")"," ",
      "="," ","3","x","sup3"," ","+"," ","2","x","sup2"," ","-"," ",
      "5","x"," ","+"," ","1">>

\* "Calculate the area of a triangle with sides 3, 4, and 5"
StoredProblem3 ==
    <<"C","a","l","c","u","l","a","t","e"," ","t","h","e"," ",
      "a","r","e","a"," ","o","f"," ","a"," ","t","r","i","a",
      "n","g","l","e"," ","w","i","t","h"," ","s","i","d","e",
      "s"," ","3",","," ","4",","," ","a","n","d"," ","5">>

EmptyString == <<>>

(***************************************************************************)
(* AIGuardRails                                                            *)
(***************************************************************************)
\* AIGuardRails.mathKeywords
mathKeywords ==
    <<<<"e","q","u","a","t","i","o","n">>,
      <<"d","e","r","i","v","a","t","i","v","e">>,
      <<"i","n","t","e","g","r","a","l">>,
      <<"f","u","n","c","t","i","o","n">>,
      <<"s","o","l","v","e">>,
      <<"c","a","l","c","u","l","a","t","e">>,
      <<"f","i","n","d">>,
      <<"a","l","g","e","b","r","a">>,
      <<"c","a","l","c","u","l","u","s">>,
      <<"g","e","o","m","e","t","r","y">>,
      <<"t","r","i","g","o","n","o","m","e","t","r","y">>,
      <<"s","t","a","t","i","s","t","i","c","s">>,
      <<"p","r","o","b","a","b","i","l","i","t","y">>,
      <<"m","a","t","r","i","x">>,
      <<"v","e","c","t","o","r">>,
      <<"p","o","l","y","n","o","m","i","a","l">>,
      <<"l","o","g","a","r","i","t","h","m">>,
      <<"e","x","p","o","n","e","n","t","i","a","l">>,
      <<"l","i","m","i","t">>,
      <<"t","h","e","o","r","e","m">>,
      <<"p","r","o","o","f">>,
      <<"f","o","r","m","u","l","a">>,
      <<"g","r","a","p","h">>,
      <<"p","l","o","t">>,
      <<"c","o","o","r","d","i","n","a","t","e">>,
      <<"a","n","g","l","e">>,
      <<"t","r","i","a","n","g","l","e">>,
      <<"c","i","r","c","l","e">>,
      <<"s","q","u","a","r","e">>,
      <<"r","e","c","t","a","n","g","l","e">>,
      <<"a","r","e","a">>,
      <<"v","o","l","u","m","e">>,
      <<"p","e","r","i","m","e","t","e","r">>>>

\* AIGuardRails.nonMathKeywords
nonMathKeywords ==
    <<<<"p","o","l","i","t","i","c","s">>,
      <<"r","e","l","i","g","i","o","n">>,
      <<"p","e","r","s","o","n","a","l">>,
      <<"m","e","d","i","c","a","l">>,
      <<"l","e","g","a","l">>,
      <<"f","i","n","a","n","c","i","a","l"," ","a","d","v","i","c","e">>,
      <<"i","n","a","p","p","r","o","p","r","i","a","t","e">>,
      <<"o","f","f","e","n","s","i","v","e">>,
      <<"v","i","o","l","e","n","t">>,
      <<"s","e","x","u","a","l">>,
      <<"d","r","u","g","s">>,
      <<"w","e","a","p","o","n","s">>>>

\* The character class of the mathSymbols regular expression, for the
\* characters the model uses.
mathSymbols == {"+", "-", "*", "/", "=", "<", ">"}

\* \d
IsDigit(c) == InSeq(Digits, c)

\* [a-z] with the i flag
IsLetter(c) == InSeq(LowerLetters, c) \/ InSeq(UpperLetters, c)

\* \w
IsWordChar(c) == IsLetter(c) \/ IsDigit(c) \/ c = "_"

hasSymbols(input) == \E i \in DOMAIN input : input[i] \in mathSymbols

hasNumbers(input) == \E i \in DOMAIN input : IsDigit(input[i])

\* /\b[a-z]\b/i: a letter with no word character on either side.
hasVariables(input) ==
    \E i \in DOMAIN input :
        /\ IsLetter(input[i])
        /\ (i = 1 \/ ~IsWordChar(input[i - 1]))
        /\ (i = Len(input) \/ ~IsWordChar(input[i + 1]))

hasNonMathContent(input) ==
    \E k \in DOMAIN nonMathKeywords :
        includes(toLowerCase(input), nonMathKeywords[k])

hasMathContent(input) ==
    \E k \in DOMAIN mathKeywords :
        includes(toLowerCase(input), mathKeywords[k])

ReasonInappropriate ==
    "Content appears to be non-educational or inappropriate. Please enter a mathematical problem."

ReasonNotMath ==
    "This doesn't appear to be a mathematical problem. Please enter a question related to mathematics, such as equations, calculus, geometry, or algebra."

NoReason == "undefined"

\* The guard with the acceptance rules tried before the denylist.
validateAcceptanceFirst(input) ==
    IF hasMathContent(input) \/ hasSymbols(input)
       \/ (hasNumbers(input) /\ hasVariables(input))
    THEN [isValid |-> TRUE, reason |-> NoReason]
    ELSE IF hasNonMathContent(input)
         THEN [isValid |-> FALSE, reason |-> ReasonInappropriate]
         ELSE [isValid |-> FALSE, reason |-> ReasonNotMath]

\* The guard accepting a digit alone, without a single-letter word.
validateNumbersAlone(input) ==
    IF hasNonMathContent(input)
    THEN [isValid |-> FALSE, reason |-> ReasonInappropriate]
    ELSE IF hasMathContent(input) \/ hasSymbols(input) \/ hasNumbers(input)
         THEN [isValid |-> TRUE, reason |-> NoReason]
         ELSE [isValid |-> FALSE, reason |-> ReasonNotMath]

validateMathematicalContent(input) ==
    IF hasNonMathContent(input)
    THEN [isValid |-> FALSE, reason |-> ReasonInappropriate]
    ELSE IF hasMathContent(input) \/ hasSymbols(input)
            \/ (hasNumbers(input) /\ hasVariables(input))
         THEN [isValid |-> TRUE, reason |-> NoReason]
         ELSE [isValid |-> FALSE, reason |-> ReasonNotMath]

(***************************************************************************)
(* MCPWebSearch                                                            *)
(***************************************************************************)

\* "Topology optimization is a mathematical method that optimizes material
\* layout within a given design space..."
TopologyContent ==
    <<"T","o","p","o","l","o","g","y"," ","o","p","t","i","m","i","z",
      "a","t","i","o","n"," ","i","s"," ","a"," ","m","a","t","h","e",
      "m","a","t","i","c","a","l"," ","m","e","t","h","o","d"," ","t",
      "h","a","t"," ","o","p","t","i","m","i","z","e","s"," ","m","a",
      "t","e","r","i","a","l"," ","l","a","y","o","u","t"," ","w","i",
      "t","h","i","n"," ","a"," ","g","i","v","e","n"," ","d","e","s",
      "i","g","n"," ","s","p","a","c","e",".",".",".">>

\* "Quantum mathematics provides the foundation for quantum cryptography
\* through principles of quantum mechanics..."
QuantumContent ==
    <<"Q","u","a","n","t","u","m"," ","m","a","t","h","e","m","a","t",
      "i","c","s"," ","p","r","o","v","i","d","e","s"," ","t","h","e",
      " ","f","o","u","n","d","a","t","i","o","n"," ","f","o","r"," ",
      "q","u","a","n","t","u","m"," ","c","r","y","p","t","o","g","r",
      "a","p","h","y"," ","t","h","r","o","u","g","h"," ","p","r","i",
      "n","c","i","p","l","e","s"," ","o","f"," ","q","u","a","n","t",
      "u","m"," ","m","e","c","h","a","n","i","c","s",".",".",".">>

\* searchMathematicalContent: the two mock results, whatever the query.
mockResults ==
    <<[title   |-> "Advanced Topology Optimization Techniques",
       url     |-> "https://example.com/topology-optimization",
       content |-> TopologyContent],
      [title   |-> "Quantum Mathematics in Cryptography Applications",
       url     |-> "https://example.com/quantum-crypto",
       content |-> QuantumContent]>>

\* The search had failed and its catch returned [].
searchCaught(query) == <<>>

\* The try block builds the two results and returns them; nothing in it
\* throws.
searchMathematicalContent(query) == mockResults

\* The length the first result's content is cut to.
SummaryLimit == 200

Ellipsis == <<".", ".", ".">>

\* The summary had the whole content.
summaryUncut(content) == content \o Ellipsis

\* searchResults[0].content.substring(0, 200) + "..."
summaryOf(content) == substring(content, SummaryLimit) \o Ellipsis

\* "No specific mathematical problem solution found"
NothingFound ==
    <<"N","o"," ","s","p","e","c","i","f","i","c"," ","m","a","t","h",
      "e","m","a","t","i","c","a","l"," ","p","r","o","b","l","e","m",
      " ","s","o","l","u","t","i","o","n"," ","f","o","u","n","d">>

\* "This topic involves advanced mathematical concepts that are actively
\* researched"
KeyConcepts ==
    <<"T","h","i","s"," ","t","o","p","i","c"," ","i","n","v","o","l",
      "v","e","s"," ","a","d","v","a","n","c","e","d"," ","m","a","t",
      "h","e","m","a","t","i","c","a","l"," ","c","o","n","c","e","p",
      "t","s"," ","t","h","a","t"," ","a","r","e"," ","a","c","t","i",
      "v","e","l","y"," ","r","e","s","e","a","r","c","h","e","d">>

\* The steps of the document generateSolutionFromSearch returns.
stepsFromSearch(results) ==
    IF Len(results) = 0
    THEN <<[step |-> 1, title |-> "Search completed", content |-> NothingFound]>>
    ELSE <<[step |-> 1, title |-> "Research Summary",
            content |-> summaryOf(results[1].content)],
           [step |-> 2, title |-> "Key Concepts", content |-> KeyConcepts]>>

generateSolutionFromSearch(query, results) ==
    IF Len(results) = 0
    THEN [steps       |-> Len(stepsFromSearch(results)),
          finalAnswer |-> "Please provide more specific mathematical details for a step-by-step solution",
          sources     |-> <<>>]
    ELSE [steps       |-> Len(stepsFromSearch(results)),
          finalAnswer |-> "This is an advanced mathematical topic. For detailed solutions, please consult specialized mathematical literature.",
          sources     |-> [k \in DOMAIN results |->
                             [title |-> results[k].title, url |-> results[k].url]]]

Nil == [nil |-> TRUE]

(***************************************************************************)
(* MockVectorDB: the store                                                 *)
(***************************************************************************)

\* Solutions are documents; the model keeps the number of steps, the final
\* answer and the sources.
Solution(n, answer) == [steps |-> n, finalAnswer |-> answer, sources |-> <<>>]

\* initializeSampleData: the three sample entries, pushed in this order.
\* Each embedding is made from a short key phrase, not from the problem text.
sampleData ==
    <<[problem   |-> SeedProblem1,
       solution  |-> Solution(3, "x = -2 or x = -3"),
       category  |-> "algebra",
       embedding |-> generateMockEmbedding(SeedKey1)],
      [problem   |-> SeedProblem2,
       solution  |-> Solution(3, "f'(x) = 9x^2 + 4x - 5"),
       category  |-> "calculus",
       embedding |-> generateMockEmbedding(SeedKey2)],
      [problem   |-> SeedProblem3,
       solution  |-> Solution(2, "Area = 6 square units"),
       category  |-> "geometry",
       embedding |-> generateMockEmbedding(SeedKey3)]>>

\* The comparator with its operands exchanged: an ascending sort.
comparefnAscending(a, b) == Minus(a.similarity, b.similarity)

\* The comparator of the sort, (a, b) => b.similarity - a.similarity.
comparefn(a, b) == Minus(b.similarity, a.similarity)

\* Array.prototype.sort: stable; an element moves left past every element
\* the comparator puts after it. A NaN from the comparator counts as 0.
RECURSIVE InsertSorted(_, _)
InsertSorted(s, x) ==
    IF s = <<>> THEN <<x>>
    ELSE IF comparefn(s[Len(s)], x) = "positive"
         THEN Append(InsertSorted(SubSeq(s, 1, Len(s) - 1), x), s[Len(s)])
         ELSE Append(s, x)

RECURSIVE SortFrom(_, _, _)
SortFrom(s, i, acc) ==
    IF i > Len(s) THEN acc ELSE SortFrom(s, i + 1, InsertSorted(acc, s[i]))

sort(s) == SortFrom(s, 1, <<>>)

\* Array.prototype.slice(0, end): a negative end counts from the end.
slice(s, end) ==
    LET k == IF end < 0 THEN (IF Len(s) + end < 0 THEN 0 ELSE Len(s) + end)
             ELSE (IF end > Len(s) THEN Len(s) ELSE end)
    IN  SubSeq(s, 1, k)

\* The result searchSimilarProblems returns on a store `ps`.
searchResults(ps, query, limit) ==
    LET queryEmbedding == generateMockEmbedding(query)
        results == [k \in DOMAIN ps |->
                      [problem    |-> ps[k].problem,
                       solution   |-> ps[k].solution,
                       similarity |-> calculateSimilarity(queryEmbedding,
                                                          ps[k].embedding),
                       category   |-> ps[k].category,
                       source     |-> "knowledge_base"]]
    IN  slice(sort(results), limit)

\* The store had the search sorted the entries themselves, without map().
problemsSortedInPlace(ps, query) ==
    LET queryEmbedding == generateMockEmbedding(query)
        tagged == [k \in DOMAIN ps |->
                     [entry      |-> ps[k],
                      similarity |-> calculateSimilarity(queryEmbedding,
                                                         ps[k].embedding)]]
        sorted == sort(tagged)
    IN  [k \in DOMAIN sorted |-> sorted[k].entry]

\* The store had the search taken the first entry out (shift()).
problemsAfterShift(ps, query) == Tail(ps)

\* The store after searchSimilarProblems: map() copies, sort() and slice()
\* work on the copy.
problemsAfterSearch(ps, query) == ps

\* The store had addProblem written its entry over the last one.
problemsAfterOverwrite(ps, problem, solution, category) ==
    [ps EXCEPT ![Len(ps)] = [problem   |-> toLowerCase(problem),
                             solution  |-> solution,
                             category  |-> category,
                             embedding |-> generateMockEmbedding(problem)]]

\* The store had addProblem put the entry first (unshift for push).
problemsAfterUnshift(ps, problem, solution, category) ==
    <<[problem   |-> toLowerCase(problem),
       solution  |-> solution,
       category  |-> category,
       embedding |-> generateMockEmbedding(problem)]>> \o ps

\* The store after addProblem: one entry pushed at the end.
problemsAfterAdd(ps, problem, solution, category) ==
    Append(ps, [problem   |-> toLowerCase(problem),
                solution  |-> solution,
                category  |-> category,
                embedding |-> generateMockEmbedding(problem)])


(***************************************************************************)
(* MemStorage                                                              *)
(***************************************************************************)

\* initializeSampleProblems: three records, each with a fresh identifier.
sampleProblems ==
    <<[id |-> 1, problem |-> StoredProblem1,
       solution |-> Solution(3, "x = -2 or x = -3"), category |-> "algebra",
       difficulty |-> "intermediate", source |-> "knowledge_base",
       createdAt |-> 0],
      [id |-> 2, problem |-> StoredProblem2,
       solution |-> Solution(3, "f'(x) = 9x^2 + 4x - 5"), category |-> "calculus",
       difficulty |-> "intermediate", source |-> "knowledge_base",
       createdAt |-> 0],
      [id |-> 3, problem |-> StoredProblem3,
       solution |-> Solution(2, "Area = 6 square units"), category |-> "geometry",
       difficulty |-> "basic", source |-> "knowledge_base",
       createdAt |-> 0]>>

\* randomUUID had handed out one identifier over and over.
sameUUID(n) == 1

\* randomUUID: an identifier not handed out before.
randomUUID(n) == n + 1

\* createMathProblem: the record stored and returned.
MathProblem(n, insertProblem) ==
    [id         |-> randomUUID(n),
     problem    |-> insertProblem.problem,
     solution   |-> insertProblem.solution,
     category   |-> insertProblem.category,
     difficulty |-> insertProblem.difficulty,
     source     |-> insertProblem.source,
     createdAt  |-> now]

\* The length "Problem submitted" cuts the problem text to.
DetailsLimit == 100

\* The details string of an activity: a label, and the text or the number
\* put after it.
Details(label, text, count) == [label |-> label, text |-> text, count |-> count]

\* createActivity: the record stored.
SystemActivity(n, action, source, details) ==
    [id |-> randomUUID(n), action |-> action, source |-> source,
     details |-> details, createdAt |-> now]

(***************************************************************************)
(* MathRoutingAgent, the routing version: guard, knowledge base, web search *)
(***************************************************************************)

\* similarityThreshold = 0.7, as a fraction
ThresholdNum == 7
ThresholdDen == 10

IdleRequest ==
    [pc |-> "idle", problem |-> <<>>, validation |-> Nil,
     similarProblems |-> <<>>, searchResults |-> <<>>, webSolution |-> Nil,
     problemRecord |-> Nil, error |-> <<>>, response |-> Nil, calls |-> <<>>]

\* Requests are numbered in the order they arrive.
Arrives(r) ==
    /\ req[r].pc = "idle"
    /\ \A q \in Requests : q < r => req[q].pc # "idle"

\* The routing if reading the last result for the first.
isHitLast(similarProblems) ==
    /\ Len(similarProblems) > 0
    /\ GreaterThan(similarProblems[Len(similarProblems)].similarity,
                   ThresholdNum, ThresholdDen)

\* The routing if without the comparison with the threshold.
isHitNonEmpty(similarProblems) ==
    Len(similarProblems) > 0

\* The condition of the routing if.
isHit(similarProblems) ==
    /\ Len(similarProblems) > 0
    /\ GreaterThan(similarProblems[1].similarity, ThresholdNum, ThresholdDen)

GenericFailure ==
    "Failed to solve the mathematical problem. Please try again or rephrase your question."

\* The route's answer to a thrown error: status 400 with its message (for a
\* schema error, the message of the issue).
ErrorResponse(message) == [status |-> 400, error |-> message]

\* The answer had carried the id of the Problem record stored last.
OkResponseLatest(problem, solution, source, category, problemId) ==
    [status |-> 200, problem |-> problem, solution |-> solution,
     source |-> source, category |-> category,
     problemId |-> mathProblems[Len(mathProblems)].id]

\* The route's answer to a returned solution.
OkResponse(problem, solution, source, category, problemId) ==
    [status |-> 200, problem |-> problem, solution |-> solution,
     source |-> source, category |-> category, problemId |-> problemId]

\* The source tag the routing version returns on each path.
routingSourceTag(path) == path

\* Steps are cut at the awaits that follow a read or a write of shared state
\* (the knowledge store, the storage); the guard, the web search and the
\* solution template touch none and run within the step that follows them.

\* POST /api/solve: solveProblemSchema.parse rejects the empty problem. Else
\* solveProblem runs the guard (Step 1) and throws its reason, or logs
\* "Problem submitted".
RoutingStart(r, text) ==
    /\ Arrives(r)
    /\ IF Len(text) < 1
       THEN /\ req' = [req EXCEPT ![r].pc = "done", ![r].problem = text,
                          ![r].response = ErrorResponse("Problem cannot be empty")]
            /\ UNCHANGED <<systemActivities, uuid>>
       ELSE LET validation == validateMathematicalContent(text)
            IN  IF ~validation.isValid
                THEN /\ req' = [req EXCEPT ![r].pc = "done", ![r].problem = text,
                                   ![r].validation = validation,
                                   ![r].calls = Append(@, "validateMathematicalContent"),
                                   ![r].response = ErrorResponse(validation.reason)]
                     /\ UNCHANGED <<systemActivities, uuid>>
                ELSE /\ systemActivities' = Append(systemActivities,
                            SystemActivity(uuid, "Problem submitted", "user_input",
                                           Details("", substring(text, DetailsLimit), 0)))
                     /\ uuid' = uuid + 1
                     /\ req' = [req EXCEPT ![r].pc = "submitted", ![r].problem = text,
                                   ![r].validation = validation,
                                   ![r].calls = @ \o <<"validateMathematicalContent",
                                                       "createActivity">>]
    /\ UNCHANGED <<problems, mathProblems, added, lastSearch, simCall, guardCall, feedbackEntries, now, reply>>

\* Step 2: search the knowledge base.
RoutingSearch(r) ==
    /\ req[r].pc = "submitted"
    /\ req' = [req EXCEPT ![r].pc = "searched",
                          ![r].similarProblems = searchResults(problems, req[r].problem, 3),
                          ![r].calls = Append(@, "searchSimilarProblems")]
    /\ problems' = problemsAfterSearch(problems, req[r].problem)
    /\ UNCHANGED <<mathProblems, systemActivities, uuid,
                   added, lastSearch, simCall, guardCall, feedbackEntries, now, reply>>

\* The routing if. On a hit, store the best match's solution; else
\* (Step 3) search the web, make the solution from the results and store it.
RoutingDecide(r) ==
    /\ req[r].pc = "searched"
    /\ IF isHit(req[r].similarProblems)
       THEN LET bestMatch == req[r].similarProblems[1]
                record == MathProblem(uuid,
                            [problem |-> req[r].problem,
                             solution |-> bestMatch.solution,
                             category |-> bestMatch.category,
                             difficulty |-> "intermediate",
                             source |-> "knowledge_base"])
            IN  /\ mathProblems' = Append(mathProblems, record)
                /\ req' = [req EXCEPT ![r].pc = "kbStored",
                                      ![r].problemRecord = record,
                                      ![r].calls = Append(@, "createMathProblem")]
       ELSE LET results == searchMathematicalContent(req[r].problem)
                webSolution == generateSolutionFromSearch(req[r].problem, results)
                record == MathProblem(uuid,
                            [problem |-> req[r].problem,
                             solution |-> webSolution,
                             category |-> "advanced",
                             difficulty |-> "advanced",
                             source |-> "web_search"])
            IN  /\ mathProblems' = Append(mathProblems, record)
                /\ req' = [req EXCEPT ![r].pc = "webStored",
                                      ![r].searchResults = results,
                                      ![r].webSolution = webSolution,
                                      ![r].problemRecord = record,
                                      ![r].calls = @ \o <<"searchMathematicalContent",
                                                          "generateSolutionFromSearch",
                                                          "createMathProblem">>]
    /\ uuid' = uuid + 1
    /\ UNCHANGED <<problems, systemActivities, added, lastSearch, simCall, guardCall, feedbackEntries, now, reply>>

\* Knowledge-base path: log "Solution found" and return. The details string
\* is "Similarity: " and the score with two decimals; the model keeps the
\* label.
RoutingKbFinish(r) ==
    /\ req[r].pc = "kbStored"
    /\ systemActivities' = Append(systemActivities,
           SystemActivity(uuid, "Solution found", "knowledge_base",
                          Details("Similarity: ", <<>>, 0)))
    /\ uuid' = uuid + 1
    /\ LET bestMatch == req[r].similarProblems[1]
       IN  req' = [req EXCEPT ![r].pc = "done",
                      ![r].calls = Append(@, "createActivity"),
                      ![r].response = OkResponse(req[r].problem, bestMatch.solution,
                                         routingSourceTag("knowledge_base"),
                                         bestMatch.category, req[r].problemRecord.id)]
    /\ UNCHANGED <<problems, mathProblems, added, lastSearch, simCall, guardCall, feedbackEntries, now, reply>>

\* Web-search path: log "Solution found" and return.
RoutingWebFinish(r) ==
    /\ req[r].pc = "webStored"
    /\ systemActivities' = Append(systemActivities,
           SystemActivity(uuid, "Solution found", "web_search",
                          Details("Sources: found", <<>>, Len(req[r].searchResults))))
    /\ uuid' = uuid + 1
    /\ req' = [req EXCEPT ![r].pc = "done",
                  ![r].calls = Append(@, "createActivity"),
                  ![r].response = OkResponse(req[r].problem, req[r].webSolution,
                                     routingSourceTag("web_search"), "advanced",
                                     req[r].problemRecord.id)]
    /\ UNCHANGED <<problems, mathProblems, added, lastSearch, simCall, guardCall, feedbackEntries, now, reply>>

(***************************************************************************)
(* MathRoutingAgent, the solver version: no guard, an external solver      *)
(***************************************************************************)
calculusWords ==
    {<<"d","e","r","i","v","a","t","i","v","e">>,
     <<"d","i","f","f","e","r","e","n","t","i","a","t","e">>,
     <<"i","n","t","e","g","r","a","t","e">>}

algebraWords ==
    {<<"s","o","l","v","e">>,
     <<"e","q","u","a","t","i","o","n">>,
     <<"x">>}

geometryWords ==
    {<<"a","r","e","a">>,
     <<"v","o","l","u","m","e">>,
     <<"t","r","i","a","n","g","l","e">>}

trigonometryWords ==
    {<<"s","i","n">>,
     <<"c","o","s">>,
     <<"t","a","n">>}

includesAny(s, ws) == \E w \in ws : includes(s, w)

categorizeProblems(problem) ==
    LET problemLower == toLowerCase(problem)
    IN  IF includesAny(problemLower, calculusWords) THEN "calculus"
        ELSE IF includesAny(problemLower, algebraWords) THEN "algebra"
        ELSE IF includesAny(problemLower, geometryWords) THEN "geometry"
        ELSE IF includesAny(problemLower, trigonometryWords) THEN "trigonometry"
        ELSE "general"

\* What the spawned solver process can do: print a solution, or fail. The
\* message of a failure ends with what the process wrote to stderr, or with
\* the parse error; either has any length.
MaxStderr == 90

\* "Python script failed: "
ScriptFailed ==
    <<"P","y","t","h","o","n"," ","s","c","r","i","p","t"," ",
      "f","a","i","l","e","d",":"," ">>

\* "Failed to parse Python output: SyntaxError"
ParseFailed ==
    <<"F","a","i","l","e","d"," ","t","o"," ","p","a","r","s",
      "e"," ","P","y","t","h","o","n"," ","o","u","t","p","u",
      "t",":"," ","S","y","n","t","a","x","E","r","r","o","r">>

errorOutput == [i \in 1..MaxStderr |-> "E"]

PythonErrors == {ScriptFailed \o errorOutput, ParseFailed}

PythonSolution == Solution(2, "solver answer")

\* The source tag the solver version returns.
solverSourceTag == "knowledge_base"

\* POST /api/solve: parse; solveProblem logs "Problem submitted" and
\* callPythonSolver spawns the solver process.
SolverStart(r, text) ==
    /\ Arrives(r)
    /\ IF Len(text) < 1
       THEN /\ req' = [req EXCEPT ![r].pc = "done", ![r].problem = text,
                                  ![r].response = ErrorResponse("Problem cannot be empty")]
            /\ UNCHANGED <<systemActivities, uuid>>
       ELSE /\ systemActivities' = Append(systemActivities,
                   SystemActivity(uuid, "Problem submitted", "user_input",
                                  Details("", substring(text, DetailsLimit), 0)))
            /\ uuid' = uuid + 1
            /\ req' = [req EXCEPT ![r].pc = "solving", ![r].problem = text,
                                  ![r].calls = @ \o <<"createActivity",
                                                      "callPythonSolver">>]
    /\ UNCHANGED <<problems, mathProblems, added, lastSearch, simCall, guardCall, feedbackEntries, now, reply>>

\* The process closed with code 0 and its output parsed: categorize, store.
SolverResolved(r) ==
    /\ req[r].pc = "solving"
    /\ LET record == MathProblem(uuid,
                        [problem |-> req[r].problem,
                         solution |-> PythonSolution,
                         category |-> categorizeProblems(req[r].problem),
                         difficulty |-> "intermediate",
                         source |-> "math_solver"])
       IN  /\ mathProblems' = Append(mathProblems, record)
           /\ req' = [req EXCEPT ![r].pc = "solverStored",
                                 ![r].problemRecord = record,
                                 ![r].calls = Append(@, "createMathProblem")]
    /\ uuid' = uuid + 1
    /\ UNCHANGED <<problems, systemActivities, added, lastSearch, simCall, guardCall, feedbackEntries, now, reply>>

\* The catch throwing the error it caught again.
catchRethrows(message) == message

\* The error the catch throws, whatever it caught.
catchThrows(message) == GenericFailure

\* The process failed: the catch logs "Solution failed" with the message
\* and throws the generic error; the route answers 400 with it.
SolverRejected(r, message) ==
    /\ req[r].pc = "solving"
    /\ systemActivities' = Append(systemActivities,
           SystemActivity(uuid, "Solution failed", "error",
                          Details("", message, 0)))
    /\ uuid' = uuid + 1
    /\ req' = [req EXCEPT ![r].pc = "done", ![r].error = message,
                          ![r].calls = Append(@, "createActivity"),
                          ![r].response = ErrorResponse(catchThrows(message))]
    /\ UNCHANGED <<problems, mathProblems, added, lastSearch, simCall, guardCall, feedbackEntries, now, reply>>

\* Log "Solution generated" and return.
SolverFinish(r) ==
    /\ req[r].pc = "solverStored"
    /\ systemActivities' = Append(systemActivities,
           SystemActivity(uuid, "Solution generated", "math_solver",
                          Details("Category: ", <<>>, 0)))
    /\ uuid' = uuid + 1
    /\ req' = [req EXCEPT ![r].pc = "done",
                  ![r].calls = Append(@, "createActivity"),
                  ![r].response = OkResponse(req[r].problem, PythonSolution,
                                     solverSourceTag, req[r].problemRecord.category,
                                     req[r].problemRecord.id)]
    /\ UNCHANGED <<problems, mathProblems, added, lastSearch, simCall, guardCall, feedbackEntries, now, reply>>

(***************************************************************************)
(* Feedback, status and listings                                           *)
(***************************************************************************)

\* Feedback records the model lets the storage take.
MaxFeedback == 2

\* Identifiers are the numbers randomUUID hands out; 0 stands for the empty
\* string and -1 for null.
EmptyId == 0
NullId == 0 - 1

\* A field of a request body: its JSON type ("undefined" when missing) and
\* its value. The comments field, which no answer depends on, is left out.
Field(type, value) == [type |-> type, value |-> value]

\* insertFeedbackSchema.parse: accuracyRating a number (the bodies of the
\* model hold whole numbers), clarityRating a string, isHelpful a boolean;
\* problemId is an optional string.
insertFeedbackSchemaAccepts(body) ==
    /\ body.accuracyRating.type = "number"
    /\ body.clarityRating.type = "string"
    /\ body.isHelpful.type = "boolean"

\* createFeedback: the record stored; problemId || null.
FeedbackEntry(n, insertFeedback) ==
    [id             |-> randomUUID(n),
     problemId      |-> IF insertFeedback.problemId = EmptyId
                        THEN NullId ELSE insertFeedback.problemId,
     accuracyRating |-> insertFeedback.accuracyRating.value,
     clarityRating  |-> insertFeedback.clarityRating.value,
     isHelpful      |-> insertFeedback.isHelpful.value,
     createdAt      |-> now]

\* getFeedbackByProblemId: the entries whose problemId === the argument.
getFeedbackByProblemId(problemId) ==
    SelectSeq(feedbackEntries, LAMBDA f : f.problemId = problemId)

\* getMathProblemsByCategory
problemsOfCategory(records, category) ==
    SelectSeq(records, LAMBDA p : p.category = category)

getMathProblemsByCategory(category) == problemsOfCategory(mathProblems, category)

\* Array.prototype.sort with (a, b) => b.createdAt - a.createdAt: newest
\* first, records of one millisecond in the order they had.
RECURSIVE InsertNewest(_, _)
InsertNewest(s, x) ==
    IF s = <<>> THEN <<x>>
    ELSE IF s[Len(s)].createdAt < x.createdAt
         THEN Append(InsertNewest(SubSeq(s, 1, Len(s) - 1), x), s[Len(s)])
         ELSE Append(s, x)

RECURSIVE NewestFrom(_, _, _)
NewestFrom(s, i, acc) ==
    IF i > Len(s) THEN acc ELSE NewestFrom(s, i + 1, InsertNewest(acc, s[i]))

sortNewestFirst(s) == NewestFrom(s, 1, <<>>)

\* getRecentActivity: a sorted copy of the records, cut to the limit.
recentOf(activities, limit) == slice(sortNewestFirst(activities), limit)

getRecentActivity(limit) == recentOf(systemActivities, limit)

\* The activity records had getRecentActivity sorted them where they are.
activitiesSortedInPlace == sortNewestFirst(systemActivities)

\* The activity records after getRecentActivity: Array.from() copies.
activitiesAfterGetRecent == systemActivities

CountCategory(records, category) == Len(problemsOfCategory(records, category))

\* getKnowledgeBaseStats
statsOf(records) ==
    [total      |-> Len(records),
     calculus   |-> CountCategory(records, "calculus"),
     algebra    |-> CountCategory(records, "algebra"),
     geometry   |-> CountCategory(records, "geometry"),
     statistics |-> CountCategory(records, "statistics")]

getKnowledgeBaseStats == statsOf(mathProblems)

\* The answer of GET /api/status, from what getKnowledgeBaseStats and
\* getRecentActivity(5) returned.
statusOf(stats, recentActivity) ==
    [kind               |-> "status",
     knowledgeBaseStats |-> stats,
     recentActivity     |-> [k \in DOMAIN recentActivity |->
                               [action    |-> recentActivity[k].action,
                                source    |-> recentActivity[k].source,
                                details   |-> recentActivity[k].details,
                                timestamp |-> recentActivity[k].createdAt]]]

\* The answer for given Problem and Activity records.
statusFrom(records, activities) == statusOf(statsOf(records), recentOf(activities, 5))

statusReply == statusFrom(mathProblems, systemActivities)

\* The categories GET /api/history asks for when none is given.
historyCategories == <<"algebra", "calculus", "geometry", "statistics", "trigonometry">>

RECURSIVE flat(_)
flat(lists) == IF lists = <<>> THEN <<>> ELSE Head(lists) \o flat(Tail(lists))

\* The answer of GET /api/history.
historyReply(category) ==
    LET found == IF category # "" /\ category # "all"
                 THEN getMathProblemsByCategory(category)
                 ELSE flat([k \in DOMAIN historyCategories |->
                              getMathProblemsByCategory(historyCategories[k])])
    IN  [kind |-> "history", category |-> category,
         problems |-> sortNewestFirst(found)]

\* The feedback, status and listing calls are made one at a time; the solve
\* requests interleave with them.
Quiet == reply.kind # "feedbackStored"

\* new Date() moves on.
MaxClock == 1

Tick ==
    /\ now < MaxClock
    /\ now' = now + 1
    /\ UNCHANGED <<problems, mathProblems, systemActivities, uuid, req, added,
                   lastSearch, simCall, guardCall, feedbackEntries, reply>>

\* POST /api/feedback: parse the body, then submitFeedback calls
\* createFeedback.
SubmitFeedbackStart(body) ==
    /\ Quiet
    /\ Len(feedbackEntries) < MaxFeedback
    /\ IF insertFeedbackSchemaAccepts(body)
       THEN /\ feedbackEntries' = Append(feedbackEntries, FeedbackEntry(uuid, body))
            /\ uuid' = uuid + 1
            /\ reply' = [kind |-> "feedbackStored", body |-> body]
       ELSE /\ reply' = [kind |-> "feedback", status |-> 400, body |-> body]
            /\ UNCHANGED <<feedbackEntries, uuid>>
    /\ UNCHANGED <<problems, mathProblems, systemActivities, req, added,
                   lastSearch, simCall, guardCall, now>>

\* submitFeedback logs "Feedback received" and the route answers success.
\* The details are "Rating: n/5, Clarity: c"; the model keeps n and c.
SubmitFeedbackFinish ==
    /\ reply.kind = "feedbackStored"
    /\ systemActivities' = Append(systemActivities,
           SystemActivity(uuid, "Feedback received", "user_feedback",
                          Details(reply.body.clarityRating.value, <<>>,
                                  reply.body.accuracyRating.value)))
    /\ uuid' = uuid + 1
    /\ reply' = [kind |-> "feedback", status |-> 200, body |-> reply.body]
    /\ UNCHANGED <<problems, mathProblems, req, added, lastSearch, simCall,
                   guardCall, feedbackEntries, now>>

\* storage.getFeedbackByProblemId, called directly
GetFeedbackByProblemId(problemId) ==
    /\ Quiet
    /\ reply' = [kind |-> "feedbackList", problemId |-> problemId,
                 entries |-> getFeedbackByProblemId(problemId)]
    /\ UNCHANGED <<problems, mathProblems, systemActivities, uuid, req, added,
                   lastSearch, simCall, guardCall, feedbackEntries, now>>

\* GET /api/status
GetStatus ==
    /\ Quiet
    /\ reply' = statusReply
    /\ systemActivities' = activitiesAfterGetRecent
    /\ UNCHANGED <<problems, mathProblems, uuid, req, added, lastSearch,
                   simCall, guardCall, feedbackEntries, now>>

\* GET /api/activity?limit=: parseInt(limit) || 10
GetActivity(limit) ==
    /\ Quiet
    /\ reply' = [kind |-> "activity",
                 activities |-> getRecentActivity(IF limit = 0 THEN 10 ELSE limit)]
    /\ systemActivities' = activitiesAfterGetRecent
    /\ UNCHANGED <<problems, mathProblems, uuid, req, added, lastSearch,
                   simCall, guardCall, feedbackEntries, now>>

\* GET /api/history?category=
GetHistory(category) ==
    /\ Quiet
    /\ reply' = historyReply(category)
    /\ UNCHANGED <<problems, mathProblems, systemActivities, uuid, req, added,
                   lastSearch, simCall, guardCall, feedbackEntries, now>>

\* generateMockEmbedding, called directly
GenerateMockEmbedding(text) ==
    /\ reply' = [kind      |-> "embedding",
                 text      |-> text,
                 embedding |-> generateMockEmbedding(text)]
    /\ UNCHANGED <<problems, mathProblems, systemActivities, uuid, req, added,
                   lastSearch, simCall, guardCall, feedbackEntries, now>>

\* webSearch.generateSolutionFromSearch, called directly
GenerateSolutionFromSearch(query, results) ==
    /\ reply' = [kind     |-> "webSolution",
                 query    |-> query,
                 results  |-> results,
                 steps    |-> stepsFromSearch(results),
                 solution |-> generateSolutionFromSearch(query, results)]
    /\ UNCHANGED <<problems, mathProblems, systemActivities, uuid, req, added,
                   lastSearch, simCall, guardCall, feedbackEntries, now>>

(***************************************************************************)
(* The embedding and the similarity at their full size                     *)
(***************************************************************************)

\* new Array(384)
EmbeddingDimensions == 384

\* Math.sin and Math.cos at the integers 0, 1, 2, ..., in thousandths.
sinOfInteger ==
    <<0, 841, 909, 141, -757, -959, -279, 657, 989, 412, -544, -1000, -537,
      420, 991, 650, -288, -961, -751, 150, 913, 837, -9, -846, -906, -132,
      763, 956, 271, -664, -988, -404, 551, 1000, 529, -428, -992, -644,
      296, 964, 745, -159, -917, -832, 18, 851, 902, 124, -768, -954, -262,
      670, 987, 396, -559, -1000, -522, 436, 993, 637, -305, -966, -739,
      167, 920, 827, -27, -856, -898, -115, 774, 951, 254, -677, -985,
      -388, 566, 1000, 514, -444, -994, -630, 313, 968, 733, -176, -923,
      -822, 35, 860, 894, 106, -779, -948, -245, 683, 984, 380, -573, -999,
      -506, 452, 995, 623, -322, -971, -727, 185, 927, 817, -44, -865,
      -890, -97, 785, 945, 237, -690, -982, -371, 581, 999, 499, -460,
      -996, -616, 330, 973, 721, -193, -930, -812, 53, 869, 886, 88, -790,
      -943, -228, 696, 980, 363, -588, -998, -491, 468, 996, 609, -338,
      -975, -715, 202, 933, 806, -62, -873, -882, -80, 796, 940, 219, -702,
      -978, -355, 595, 998, 483, -476, -997, -602, 347, 977, 709, -211,
      -936, -801, 71, 878, 878, 71, -801, -936, -211, 709, 977, 347, -602,
      -997, -476, 483, 998, 595, -355, -978, -702, 219, 940, 796, -80,
      -882, -873, -62, 806, 933, 202, -715, -975, -338, 609, 996, 468,
      -491, -998, -588, 363, 980, 696, -228, -943, -790, 88, 886, 869, 53,
      -812, -930, -193, 721, 973, 330, -616, -996, -460, 499, 999, 581,
      -371, -982, -690, 237, 945, 785, -97, -890, -865, -44, 817, 927, 185,
      -727, -971, -322, 623, 995, 452, -506, -999, -573, 380, 984, 683,
      -245, -948, -779, 106, 894, 860, 35, -822, -923, -176, 733, 968, 313,
      -630, -994, -444, 514, 1000, 566, -388, -985, -677, 254, 951, 774,
      -115, -898, -856, -27, 827, 920, 167, -739, -966, -305, 637, 993,
      436, -522, -1000, -559, 396, 987, 670, -262, -954, -768, 124, 902,
      851, 18, -832, -917, -159, 745, 964, 296, -644, -992, -428, 529,
      1000, 551, -404, -988, -664, 271, 956, 763, -132, -906, -846, -9,
      837, 913, 150, -751, -961, -288, 650, 991, 420, -537, -1000, -544,
      412, 989, 657, -279, -959, -757, 141, 909, 841, 0, -841, -909, -141,
      757, 959, 279, -657, -989, -412, 544, 1000, 537, -420, -991, -650,
      288, 961, 751, -150, -913, -837, 9, 846, 906, 132, -763, -956, -271,
      664, 988, 404, -551, -1000, -529, 428, 992, 644, -296, -964, -745,
      159, 917, 832, -18>>

cosOfInteger ==
    <<1000, 540, -416, -990, -654, 284, 960, 754, -146, -911, -839, 4, 844,
      907, 137, -760, -958, -275, 660, 989, 408, -548, -1000, -533, 424,
      991, 647, -292, -963, -748, 154, 915, 834, -13, -849, -904, -128,
      765, 955, 267, -667, -987, -400, 555, 1000, 525, -432, -992, -640,
      301, 965, 742, -163, -918, -829, 22, 853, 900, 119, -771, -952, -258,
      674, 986, 392, -562, -1000, -518, 440, 993, 633, -309, -967, -736,
      172, 922, 824, -31, -858, -896, -110, 777, 950, 250, -680, -984,
      -384, 570, 999, 510, -448, -994, -626, 317, 969, 730, -180, -925,
      -819, 40, 862, 892, 102, -782, -947, -241, 686, 983, 376, -577, -999,
      -503, 456, 995, 620, -326, -972, -724, 189, 928, 814, -49, -867,
      -888, -93, 788, 944, 232, -693, -981, -367, 584, 999, 495, -464,
      -996, -613, 334, 974, 718, -198, -932, -809, 58, 871, 884, 84, -793,
      -941, -224, 699, 979, 359, -591, -998, -487, 472, 997, 606, -342,
      -976, -712, 206, 935, 804, -66, -875, -880, -75, 798, 938, 215, -706,
      -978, -351, 598, 997, 479, -479, -997, -598, 351, 978, 706, -215,
      -938, -798, 75, 880, 875, 66, -804, -935, -206, 712, 976, 342, -606,
      -997, -472, 487, 998, 591, -359, -979, -699, 224, 941, 793, -84,
      -884, -871, -57, 809, 932, 198, -718, -974, -334, 613, 996, 464,
      -495, -999, -584, 367, 981, 693, -232, -944, -788, 93, 888, 867, 49,
      -814, -928, -189, 724, 972, 326, -620, -995, -456, 503, 999, 577,
      -376, -983, -686, 241, 947, 782, -102, -892, -862, -40, 819, 925,
      180, -730, -969, -317, 626, 994, 448, -510, -999, -570, 384, 984,
      680, -250, -950, -777, 110, 896, 858, 31, -824, -922, -172, 736, 967,
      309, -633, -993, -440, 518, 1000, 562, -392, -986, -673, 258, 952,
      771, -119, -900, -853, -22, 829, 918, 163, -742, -965, -301, 640,
      992, 432, -525, -1000, -555, 400, 987, 667, -267, -955, -765, 128,
      904, 849, 13, -834, -915, -154, 748, 963, 292, -647, -991, -424, 533,
      1000, 548, -408, -989, -660, 275, 958, 760, -137, -907, -844, -4,
      839, 911, 145, -754, -960, -284, 654, 990, 416, -540, -1000, -540,
      416, 990, 654, -284, -960, -754, 146, 911, 839, -4, -844, -907, -137,
      760, 958, 275, -660, -989, -408, 548, 1000, 533, -424, -991, -647,
      292, 963, 748, -154, -915, -834, 13, 849, 904, 128, -765, -955, -267,
      667, 987, 400, -555, -1000>>

\* Math.sin and Math.cos at the hashes of the words of the texts below, in
\* thousandths.
sinOfHash ==
    <<
      [hash |-> 109619263, sin |-> -394, cos |-> -919],
      [hash |-> 1468800232, sin |-> 853, cos |-> -522],
      [hash |-> 581637964, sin |-> 371, cos |-> 929],
      [hash |-> 118284, sin |-> 105, cos |-> -994],
      [hash |-> 43, sin |-> -832, cos |-> 555],
      [hash |-> 1763, sin |-> -537, cos |-> -844],
      [hash |-> 54, sin |-> -559, cos |-> -829],
      [hash |-> 61, sin |-> -966, cos |-> -258],
      [hash |-> 48, sin |-> -768, cos |-> -640],
      [hash |-> 3898, sin |-> 657, cos |-> -754],
      [hash |-> 3143097, sin |-> 459, cos |-> -889],
      [hash |-> 1353885305, sin |-> -877, cos |-> -480],
      [hash |-> 3543, sin |-> -657, cos |-> 754],
      [hash |-> 3080883, sin |-> -999, cos |-> 54],
      [hash |-> 52910, sin |-> -647, cos |-> 763],
      [hash |-> 51948, sin |-> -981, cos |-> 193],
      [hash |-> 45, sin |-> 851, cos |-> 525],
      [hash |-> 49, sin |-> -954, cos |-> 301],
      [hash |-> 1283652762, sin |-> 975, cos |-> -223],
      [hash |-> 3002509, sin |-> 805, cos |-> 593],
      [hash |-> 1497762312, sin |-> -197, cos |-> -980],
      [hash |-> 3649734, sin |-> 964, cos |-> 266],
      [hash |-> 109432316, sin |-> 159, cos |-> 987],
      [hash |-> 1625, sin |-> -715, cos |-> -699],
      [hash |-> 1656, sin |-> -372, cos |-> -928],
      [hash |-> 53, sin |-> 396, cos |-> -918],
      [hash |-> 179954870, sin |-> 557, cos |-> 831],
      [hash |-> 106858757, sin |-> 641, cos |-> -767],
      [hash |-> 3512060, sin |-> -968, cos |-> -252],
      [hash |-> 1846020210, sin |-> 193, cos |-> -981],
      [hash |-> 570086828, sin |-> -869, cos |-> -494],
      [hash |-> 120, sin |-> 581, cos |-> 814]>>

HashEntry(hash) ==
    sinOfHash[CHOOSE k \in DOMAIN sinOfHash : sinOfHash[k].hash = hash]

\* The sine and the cosine of the hash of each word from the k-th on.
RECURSIVE WordSines(_, _)
WordSines(words, k) ==
    IF k > Len(words) THEN <<>>
    ELSE <<HashEntry(simpleHash(words[k]))>> \o WordSines(words, k + 1)

\* Math.sin(hash + n) * 0.1 in thousandths, by the addition theorem:
\* sin(hash) cos(n) + cos(hash) sin(n).
MathSin(ofHash, n) ==
    (ofHash.sin * cosOfInteger[n + 1] + ofHash.cos * sinOfInteger[n + 1])
        \div 10000

\* What the words add to dimension i: the sine of hash + i + index each.
RECURSIVE SumSines(_, _, _)
SumSines(sines, index, i) ==
    IF index > Len(sines) THEN 0
    ELSE MathSin(sines[index], i + (index - 1)) + SumSines(sines, index + 1, i)

\* The dimensions from low to high, one after the other.
RECURSIVE Dimensions(_, _, _)
Dimensions(sines, low, high) ==
    IF low = high THEN <<SumSines(sines, 1, low - 1)>>
    ELSE LET mid == (low + high) \div 2
         IN  Dimensions(sines, low, mid) \o Dimensions(sines, mid + 1, high)

\* generateMockEmbedding with its 384 dimensions and the sine of the code.
embeddingOf(text) ==
    Dimensions(WordSines(split(toLowerCase(text)), 1), 1, EmbeddingDimensions)

\* Math.sqrt, rounded down.
RECURSIVE SqrtBetween(_, _, _)
SqrtBetween(n, low, high) ==
    IF low >= high THEN low
    ELSE LET mid == (low + high + 1) \div 2
         IN  IF mid * mid <= n THEN SqrtBetween(n, mid, high)
             ELSE SqrtBetween(n, low, mid - 1)

sqrt(n) == SqrtBetween(n, 0, 46340)

\* The sum of a[i] * b[i] for i from low to high, the two halves of the
\* range added up one after the other.
RECURSIVE SumProducts(_, _, _, _)
SumProducts(a, b, low, high) ==
    IF low > high THEN 0
    ELSE IF low = high THEN a[low] * b[low]
    ELSE LET mid == (low + high) \div 2
         IN  SumProducts(a, b, low, mid) + SumProducts(a, b, mid + 1, high)

\* calculateSimilarity, the quotient in thousandths.
similarityOf(embedding1, embedding2) ==
    LET dotProduct == SumProducts(embedding1, embedding2, 1, Len(embedding1))
        norm1      == SumProducts(embedding1, embedding1, 1, Len(embedding1))
        norm2      == SumProducts(embedding2, embedding2, 1, Len(embedding1))
    IN  ((dotProduct \div sqrt(norm1)) * 1000) \div sqrt(norm2)

\* The key phrases initializeSampleData makes the three embeddings from.
sampleKeys == <<SeedKey1, SeedKey2, SeedKey3>>

\* The sort of the results, (a, b) => b.similarity - a.similarity: stable,
\* the greater similarity first.
RECURSIVE InsertByScore(_, _)
InsertByScore(s, x) ==
    IF s = <<>> THEN <<x>>
    ELSE IF s[Len(s)].similarity < x.similarity
         THEN Append(InsertByScore(SubSeq(s, 1, Len(s) - 1), x), s[Len(s)])
         ELSE Append(s, x)

RECURSIVE ByScoreFrom(_, _, _)
ByScoreFrom(s, i, acc) ==
    IF i > Len(s) THEN acc ELSE ByScoreFrom(s, i + 1, InsertByScore(acc, s[i]))

sortByScore(s) == ByScoreFrom(s, 1, <<>>)

\* searchSimilarProblems on the store as the constructor leaves it, with the
\* similarities in thousandths.
seededResults(query, limit) ==
    LET queryEmbedding == embeddingOf(query)
        results == [k \in DOMAIN sampleData |->
                      [problem    |-> sampleData[k].problem,
                       solution   |-> sampleData[k].solution,
                       similarity |-> similarityOf(queryEmbedding,
                                                   embeddingOf(sampleKeys[k])),
                       category   |-> sampleData[k].category,
                       source     |-> "knowledge_base"]]
    IN  slice(sortByScore(results), limit)

\* The routing if on these results: similarProblems[0].similarity > 0.7.
seededHit(similarProblems) ==
    /\ Len(similarProblems) > 0
    /\ similarProblems[1].similarity * ThresholdDen > ThresholdNum * 1000

\* solveProblem on the store as the constructor leaves it, up to the routing:
\* the search with limit 3, and the source and the category of the answer.
RouteSeeded ==
    /\ reply.kind = "routePending"
    /\ LET similarProblems == seededResults(reply.query, 3)
           hit == seededHit(similarProblems)
       IN  reply' = [kind            |-> "routed",
                     query           |-> reply.query,
                     similarProblems |-> similarProblems,
                     source          |-> IF hit THEN "knowledge_base"
                                         ELSE "web_search",
                     category        |-> IF hit THEN similarProblems[1].category
                                         ELSE "advanced"]
    /\ UNCHANGED <<problems, mathProblems, systemActivities, uuid, req, added,
                   lastSearch, simCall, guardCall, feedbackEntries, now>>

(***************************************************************************)
(* Direct calls of the knowledge store and of the similarity function      *)
(***************************************************************************)

NoSearch == [called |-> FALSE]
NoSim == [state |-> "none"]
NoGuard == [state |-> "none"]

\* vectorDB.addProblem
AddProblemUpTo(n, problem, solution, category) ==
    /\ Len(problems) < Len(sampleData) + n
    /\ problems' = problemsAfterAdd(problems, problem, solution, category)
    /\ added' = Append(added, [problem |-> problem, solution |-> solution,
                               category |-> category])
    /\ UNCHANGED <<mathProblems, systemActivities, uuid, req,
                   lastSearch, simCall, guardCall, feedbackEntries, now, reply>>

AddProblem(problem, solution, category) ==
    AddProblemUpTo(MaxAdds, problem, solution, category)

\* vectorDB.searchSimilarProblems, called with any limit
SearchSimilarProblems(query, limit) ==
    /\ lastSearch' = [called |-> TRUE, query |-> query, limit |-> limit,
                      before |-> problems,
                      results |-> searchResults(problems, query, limit)]
    /\ problems' = problemsAfterSearch(problems, query)
    /\ UNCHANGED <<mathProblems, systemActivities, uuid, req,
                   added, simCall, guardCall, feedbackEntries, now, reply>>

\* calculateSimilarity on the two vectors of a pending call
CalculateSimilarity ==
    /\ simCall.state = "pending"
    /\ simCall' = [state |-> "done", embedding1 |-> simCall.embedding1,
                   embedding2 |-> simCall.embedding2,
                   similarity |-> calculateSimilarity(simCall.embedding1,
                                                      simCall.embedding2)]
    /\ UNCHANGED <<problems, mathProblems, systemActivities, uuid,
                   req, added, lastSearch, guardCall, feedbackEntries, now, reply>>

\* validateMathematicalContent on the input of a pending call
ValidateMathematicalContent ==
    /\ guardCall.state = "pending"
    /\ guardCall' = [state |-> "done", input |-> guardCall.input,
                     result |-> validateMathematicalContent(guardCall.input)]
    /\ UNCHANGED <<problems, mathProblems, systemActivities, uuid, req,
                   added, lastSearch, simCall, feedbackEntries, now, reply>>

(***************************************************************************)
(* Specifications                                                          *)
(***************************************************************************)

\* The problems sent to POST /api/solve.
SolveTexts == {EmptyString, QQuadratic, QPolitics, QIntegral}
SolverTexts == {EmptyString, QQuadratic, QPolitics}

\* The queries of direct searches.
SearchTexts == {EmptyString, QQuadratic, QLinear, QIntegral, SeedKey3}

\* The entries added to the knowledge store: while requests are served,
\* and in direct calls.
AddedSolution == Solution(1, "added")
AddTexts == {QQuadratic, QIntegral}
AddCategories == {"algebra", "statistics"}

\* The limits of direct searches, from -1 on.
MaxLimit == 5
Limits == (0 - 1)..MaxLimit

NoReply == [kind |-> "none"]

StorageInit ==
    /\ mathProblems = sampleProblems
    /\ systemActivities = <<>>
    /\ feedbackEntries = <<>>
    /\ uuid = Len(sampleProblems)
    /\ now = 0
    /\ reply = NoReply

Init ==
    /\ added = <<>>
    /\ problems = sampleData
    /\ StorageInit
    /\ req = [r \in Requests |-> IdleRequest]
    /\ lastSearch = NoSearch
    /\ simCall = NoSim
    /\ guardCall = NoGuard

\* The server built from the routing version of the agent.
Next ==
    \/ \E r \in Requests, text \in SolveTexts : RoutingStart(r, text)
    \/ \E r \in Requests : RoutingSearch(r)
    \/ \E r \in Requests : RoutingDecide(r)
    \/ \E r \in Requests : RoutingKbFinish(r)
    \/ \E r \in Requests : RoutingWebFinish(r)
    \/ AddProblem(QIntegral, AddedSolution, "statistics")

Spec == Init /\ [][Next]_vars

\* The server built from the solver version of the agent.
SolverNext ==
    \/ \E r \in Requests, text \in SolverTexts : SolverStart(r, text)
    \/ \E r \in Requests : SolverResolved(r)
    \/ \E r \in Requests, m \in PythonErrors : SolverRejected(r, m)
    \/ \E r \in Requests : SolverFinish(r)

SpecSolver == Init /\ [][SolverNext]_vars

\* The knowledge store alone, called directly.
StoreNext ==
    \/ \E t \in AddTexts, c \in AddCategories : AddProblem(t, AddedSolution, c)
    \/ \E q \in SearchTexts, l \in Limits : SearchSimilarProblems(q, l)

SpecStore == Init /\ [][StoreNext]_vars

\* calculateSimilarity alone, on small integer vectors.
VectorSize == 2
MaxComponent == 1
Vectors == [1..VectorSize -> (0 - MaxComponent)..MaxComponent]

SimInit ==
    /\ added = <<>>
    /\ problems = sampleData
    /\ StorageInit
    /\ req = [r \in Requests |-> IdleRequest]
    /\ lastSearch = NoSearch
    /\ guardCall = NoGuard
    /\ \E a \in Vectors, b \in Vectors :
          simCall = [state |-> "pending", embedding1 |-> a, embedding2 |-> b]

SimNext == CalculateSimilarity

SpecSim == SimInit /\ [][SimNext]_vars

\* validateMathematicalContent alone, on the texts of at most MaxWords words
\* joined by single spaces.
MaxWords == 3

GuardWords ==
    {<<"p","o","l","i","t","i","c","s">>, <<"D","r","u","g","s">>,
     <<"s","o","l","v","e">>, <<"h","e","l","l","o">>,
     <<"x">>, <<"7">>, <<"=">>, <<"x","=","7">>}

RECURSIVE join(_)
join(words) ==
    IF Len(words) = 0 THEN <<>>
    ELSE IF Len(words) = 1 THEN words[1]
    ELSE words[1] \o <<" ">> \o join(Tail(words))

GuardTexts ==
    {join(ws) : ws \in UNION {[1..n -> GuardWords] : n \in 0..MaxWords}}

GuardInit ==
    /\ added = <<>>
    /\ problems = sampleData
    /\ StorageInit
    /\ req = [r \in Requests |-> IdleRequest]
    /\ lastSearch = NoSearch
    /\ simCall = NoSim
    /\ \E t \in GuardTexts : guardCall = [state |-> "pending", input |-> t]

GuardNext == ValidateMathematicalContent

SpecGuard == GuardInit /\ [][GuardNext]_vars

\* The bodies sent to POST /api/feedback: for the problems 1 and 2 and for
\* the empty problemId, with ratings within and outside 1..5, clarity values
\* within and outside the three of the form, and missing fields.
Body(problemId, accuracyRating, clarityRating, isHelpful) ==
    [problemId      |-> problemId,
     accuracyRating |-> accuracyRating,
     clarityRating  |-> clarityRating,
     isHelpful      |-> isHelpful]

Missing(value) == Field("undefined", value)

FeedbackBodies ==
    {Body(1, Field("number", 1), Field("string", "Very Clear"), Field("boolean", TRUE)),
     Body(1, Field("number", 5), Field("string", "Unclear"), Field("boolean", FALSE)),
     Body(2, Field("number", 3), Field("string", "Somewhat Clear"), Field("boolean", TRUE)),
     Body(EmptyId, Field("number", 4), Field("string", "Very Clear"), Field("boolean", TRUE)),
     Body(2, Field("number", 6), Field("string", "Very Clear"), Field("boolean", FALSE)),
     Body(1, Field("number", 3), Field("string", "Excellent"), Field("boolean", TRUE)),
     Body(1, Missing(0), Field("string", "Very Clear"), Field("boolean", TRUE)),
     Body(1, Field("number", 3), Missing(""), Field("boolean", TRUE)),
     Body(2, Field("number", 3), Field("string", "Unclear"), Missing(FALSE))}

FeedbackIds == {EmptyId, 1, 2}

\* The storage's feedback calls alone.
FeedbackNext ==
    \/ \E body \in FeedbackBodies : SubmitFeedbackStart(body)
    \/ SubmitFeedbackFinish
    \/ \E problemId \in FeedbackIds : GetFeedbackByProblemId(problemId)

SpecFeedback == Init /\ [][FeedbackNext]_vars

\* The server: solve requests, feedback, status and listings, as time passes.
ServerTexts == {QQuadratic, QIntegral}

ServerBodies ==
    {Body(1, Field("number", 1), Field("string", "Very Clear"), Field("boolean", TRUE)),
     Body(2, Missing(0), Field("string", "Unclear"), Field("boolean", FALSE))}

ActivityLimits == {0, 2}

HistoryCategories == {"", "algebra"}

\* One solve request is in progress at a time.
ServerRequests == {1}

ServerNext ==
    \/ \E r \in ServerRequests, text \in ServerTexts : RoutingStart(r, text)
    \/ \E r \in ServerRequests : RoutingSearch(r)
    \/ \E r \in ServerRequests : RoutingDecide(r)
    \/ \E r \in ServerRequests : RoutingKbFinish(r)
    \/ \E r \in ServerRequests : RoutingWebFinish(r)
    \/ \E body \in ServerBodies : SubmitFeedbackStart(body)
    \/ SubmitFeedbackFinish
    \/ GetStatus
    \/ \E limit \in ActivityLimits : GetActivity(limit)
    \/ \E category \in HistoryCategories : GetHistory(category)
    \/ Tick

SpecServer == Init /\ [][ServerNext]_vars

\* The result lists given to generateSolutionFromSearch: up to MaxResults
\* results, of the two pages of the mock search, with contents shorter than,
\* as long as and longer than the summary.
MaxResults == 2

WebPages == {[title |-> mockResults[k].title, url |-> mockResults[k].url] :
                k \in DOMAIN mockResults}

Content(n) == [i \in 1..n |-> Digits[(i % 10) + 1]]

WebContents ==
    {<<>>, Content(SummaryLimit), Content(SummaryLimit + 1), Content(SummaryLimit + 60)}

WebResults ==
    {[title |-> page.title, url |-> page.url, content |-> content] :
        page \in WebPages, content \in WebContents}

ResultLists == UNION {[1..n -> WebResults] : n \in 0..MaxResults}

WebNext ==
    \E query \in ServerTexts, results \in ResultLists :
        GenerateSolutionFromSearch(query, results)

SpecWeb == Init /\ [][WebNext]_vars

\* generateMockEmbedding between the insertions and the searches of the
\* knowledge store.
\* A text of one space: no token, two empty pieces for split(' ').
OneSpace == <<" ">>

EmbedTexts == {EmptyString, OneSpace, QQuadratic, QIntegral, QLinear}

EmbedNext ==
    \/ \E t \in AddTexts, c \in AddCategories : AddProblem(t, AddedSolution, c)
    \/ \E q \in EmbedTexts : SearchSimilarProblems(q, 3)
    \/ \E t \in EmbedTexts : GenerateMockEmbedding(t)

SpecEmbed == Init /\ [][EmbedNext]_vars

\* Calls of addProblem and searchSimilarProblems from callers that run
\* together, in every order: neither method has an await inside, so each
\* call runs from its first line to its last with no other call in between.
MaxInserts == 2

InsertNext ==
    \/ \E t \in AddTexts, c \in AddCategories :
          AddProblemUpTo(MaxInserts, t, AddedSolution, c)
    \/ \E q \in AddTexts : SearchSimilarProblems(q, 3)

SpecInserts == Init /\ [][InsertNext]_vars

\* solveProblem on the store as the constructor leaves it, for the query of
\* the documentation, the sample problems, their key phrases, and the texts
\* of up to MaxQueryWords of a few words.
MaxQueryWords == 3

\* "solve quadratic equation x^2 + 5x + 6 = 0"
QDocumented ==
    <<"s","o","l","v","e"," ","q","u","a","d","r","a","t","i",
      "c"," ","e","q","u","a","t","i","o","n"," ","x","^","2"," ",
      "+"," ","5","x"," ","+"," ","6"," ","="," ","0">>

RouteWords ==
    {<<"s","o","l","v","e">>, <<"e","q","u","a","t","i","o","n">>,
     <<"q","u","a","d","r","a","t","i","c">>,
     <<"t","r","i","a","n","g","l","e">>}

WordTexts(n) == {join(ws) : ws \in [1..n -> RouteWords]}

SeededQueries ==
    {QDocumented, SeedProblem1, SeedProblem2, SeedProblem3,
     SeedKey1, SeedKey2, SeedKey3}
      \cup UNION {WordTexts(n) : n \in 1..MaxQueryWords}

SeededInit ==
    /\ added = <<>>
    /\ problems = sampleData
    /\ mathProblems = sampleProblems
    /\ systemActivities = <<>>
    /\ feedbackEntries = <<>>
    /\ uuid = Len(sampleProblems)
    /\ now = 0
    /\ req = [r \in Requests |-> IdleRequest]
    /\ lastSearch = NoSearch
    /\ simCall = NoSim
    /\ guardCall = NoGuard
    /\ \E query \in SeededQueries : reply = [kind |-> "routePending", query |-> query]

SeededNext == RouteSeeded

SpecSeeded == SeededInit /\ [][SeededNext]_vars

(***************************************************************************)
(* Properties of the routing version                                       *)
(***************************************************************************)

\* A score strictly above 0.7: 10 * dot > 7 * sqrt(norm1 * norm2), both norms
\* non-zero.
AboveThreshold(sim) ==
    /\ sim.norm1 > 0
    /\ sim.norm2 > 0
    /\ sim.dotProduct > 0
    /\ 100 * sim.dotProduct * sim.dotProduct > 49 * sim.norm1 * sim.norm2

\* The requests that have passed the routing if.
Routed(r) ==
    \/ req[r].pc \in {"kbStored", "webStored"}
    \/ req[r].pc = "done" /\ req[r].response.status = 200

TookKnowledgeBase(r) == req[r].problemRecord.source = "knowledge_base"
TookWebSearch(r) == req[r].problemRecord.source = "web_search"

\* C1: a request takes the knowledge-base path if and only if the search it
\* made (limit 3) returned a non-empty sequence whose first result scores
\* strictly above 0.7, and the web-search path in every other case; on a hit
\* the stored and the returned solution and category are the first result's.
C1_RoutesByTopSimilarity ==
    \A r \in Requests :
        Routed(r) =>
            LET sp  == req[r].similarProblems
                hit == Len(sp) > 0 /\ AboveThreshold(sp[1].similarity)
            IN  /\ TookKnowledgeBase(r) <=> hit
                /\ TookWebSearch(r) <=> ~hit
                /\ req[r].pc = "kbStored" => hit
                /\ req[r].pc = "webStored" => ~hit
                /\ hit => /\ req[r].problemRecord.solution = sp[1].solution
                          /\ req[r].problemRecord.category = sp[1].category
                /\ (hit /\ req[r].pc = "done") =>
                       /\ req[r].response.solution = sp[1].solution
                       /\ req[r].response.category = sp[1].category

\* Two answered requests, one on each path.
C1_Witness ==
    \E r, q \in Requests :
        /\ req[r].pc = "done" /\ req[r].response.status = 200
        /\ req[q].pc = "done" /\ req[q].response.status = 200
        /\ TookKnowledgeBase(r) /\ req[r].response.category = "algebra"
        /\ TookWebSearch(q) /\ req[q].response.category = "advanced"

(***************************************************************************)
(* Properties of POST /api/solve, whichever version of the agent serves it *)
(***************************************************************************)

\* The calls that search the knowledge store, search the web, solve, or
\* write to the storage.
PipelineCalls ==
    {"searchSimilarProblems", "searchMathematicalContent",
     "generateSolutionFromSearch", "callPythonSolver",
     "createActivity", "createMathProblem"}

\* The records the storage holds for a problem text.
ActivitiesOf(text) ==
    {k \in DOMAIN systemActivities :
        systemActivities[k].details.text = substring(text, DetailsLimit)
        /\ systemActivities[k].action = "Problem submitted"}

ProblemsOf(text) ==
    {k \in DOMAIN mathProblems :
        k > Len(sampleProblems) /\ mathProblems[k].problem = text}

\* C2: a request whose (non-empty) problem the content guard rejects makes
\* no knowledge-store search, no web search and no write to the storage,
\* leaves no activity record and no Problem record, and is answered with the
\* guard's reason as the error.
C2_GuardShortCircuits ==
    \A r \in Requests :
        (/\ req[r].pc # "idle"
         /\ Len(req[r].problem) > 0
         /\ ~validateMathematicalContent(req[r].problem).isValid) =>
            /\ req[r].pc = "done"
            /\ \A k \in DOMAIN req[r].calls : req[r].calls[k] \notin PipelineCalls
            /\ ActivitiesOf(req[r].problem) = {}
            /\ ProblemsOf(req[r].problem) = {}
            /\ req[r].response =
                  ErrorResponse(validateMathematicalContent(req[r].problem).reason)

\* C3: the source tag of an answer is "knowledge_base" or "web_search", it
\* is "knowledge_base" exactly when the solution is the one of a knowledge
\* store entry, and it equals the source of the Problem record stored for
\* the request.
C3_SourceTagIsTruePath ==
    \A r \in Requests :
        (req[r].pc = "done" /\ req[r].response.status = 200) =>
            /\ req[r].response.source \in {"knowledge_base", "web_search"}
            /\ req[r].response.source = "knowledge_base" <=>
                  \E k \in DOMAIN problems :
                      problems[k].solution = req[r].response.solution
            /\ req[r].response.source = req[r].problemRecord.source
            /\ \E k \in DOMAIN mathProblems :
                  /\ mathProblems[k].id = req[r].response.problemId
                  /\ mathProblems[k].source = req[r].response.source

(***************************************************************************)
(* Properties of the knowledge store                                       *)
(***************************************************************************)

\* x < y for two scores of one search (the query's norm is common).
ScoreBelow(x, y) ==
    SignSq(x.dotProduct) * y.norm2 < SignSq(y.dotProduct) * x.norm2

ScoreEqual(x, y) == ~ScoreBelow(x, y) /\ ~ScoreBelow(y, x)

Undefined(x) == x.norm1 = 0 \/ x.norm2 = 0

\* The result the search makes of entry k of the store it read.
ResultOf(k) ==
    [problem    |-> lastSearch.before[k].problem,
     solution   |-> lastSearch.before[k].solution,
     similarity |-> calculateSimilarity(generateMockEmbedding(lastSearch.query),
                                        lastSearch.before[k].embedding),
     category   |-> lastSearch.before[k].category,
     source     |-> "knowledge_base"]

\* C4: the results of a search are the results of entries of the store, no
\* score is below a later one, and of two results with equal scores the one
\* of the entry inserted first comes first.
C4_SortedAndStable ==
    lastSearch.called =>
        LET results == lastSearch.results
        IN  /\ \A i \in DOMAIN results :
                  \E a \in DOMAIN lastSearch.before : results[i] = ResultOf(a)
            /\ \A i, j \in DOMAIN results :
                  i < j =>
                      /\ ~Undefined(results[i].similarity)
                      /\ ~Undefined(results[j].similarity)
                      /\ ~ScoreBelow(results[i].similarity, results[j].similarity)
                      /\ ScoreEqual(results[i].similarity, results[j].similarity)
                            => \E a, b \in DOMAIN lastSearch.before :
                                  /\ a < b
                                  /\ results[i] = ResultOf(a)
                                  /\ results[j] = ResultOf(b)
                                  /\ \A c \in DOMAIN lastSearch.before :
                                        results[i] = ResultOf(c) => a <= c

\* A search whose results hold two different entries with equal scores and
\* a third with a lower score, and do not come in the order of the store.
C4_Witness ==
    /\ lastSearch.called
    /\ \E i, j, k \in DOMAIN lastSearch.results :
          /\ i < j /\ j < k
          /\ lastSearch.results[i] # lastSearch.results[j]
          /\ ScoreEqual(lastSearch.results[i].similarity,
                        lastSearch.results[j].similarity)
          /\ ScoreBelow(lastSearch.results[k].similarity,
                        lastSearch.results[j].similarity)
    /\ \E i \in DOMAIN lastSearch.results : lastSearch.results[i] # ResultOf(i)

Min(a, b) == IF a < b THEN a ELSE b

\* C5: a search returns at most `limit` results, and exactly
\* min(limit, number of entries) when the limit is not negative.
C5_AtMostLimit ==
    lastSearch.called =>
        /\ Len(lastSearch.results) <= lastSearch.limit
        /\ lastSearch.limit >= 0 =>
              Len(lastSearch.results) = Min(lastSearch.limit, Len(lastSearch.before))

\* The steps that are a searchSimilarProblems call: the call is recorded
\* with the store it read, and nothing is added.
SearchStep ==
    /\ lastSearch'.called
    /\ lastSearch'.before = problems
    /\ added' = added

\* C6: a search leaves the store as it was: the same entries in the same
\* order, each with its problem text, solution, category and embedding.
C6_SearchKeepsStore ==
    [][SearchStep
          => /\ Len(problems') = Len(problems)
             /\ \A k \in DOMAIN problems :
                   /\ problems'[k].problem = problems[k].problem
                   /\ problems'[k].solution = problems[k].solution
                   /\ problems'[k].category = problems[k].category
                   /\ problems'[k].embedding = problems[k].embedding]_vars

\* A search of the whole store whose results are not in the order of the
\* store, with the store as the search found it.
C6_Witness ==
    /\ lastSearch.called
    /\ Len(lastSearch.results) = Len(lastSearch.before)
    /\ Len(lastSearch.before) > Len(sampleData)
    /\ \E i \in DOMAIN lastSearch.results :
          lastSearch.results[i].problem # lastSearch.before[i].problem
    /\ problems = lastSearch.before

\* The entry addProblem makes of the arguments of call k, its text as given
\* or as stored.
SameFields(entry, text, k) ==
    /\ entry.problem = text
    /\ entry.solution = added[k].solution
    /\ entry.category = added[k].category

\* The store is the sample entries followed by one entry for each
\* addProblem call, in the order of the calls.
AppendedInOrder ==
    /\ Len(problems) = Len(sampleData) + Len(added)
    /\ SubSeq(problems, 1, Len(sampleData)) = sampleData
    /\ \A k \in DOMAIN added :
          problems[Len(sampleData) + k].embedding
              = generateMockEmbedding(added[k].problem)

\* The calls of addProblem made before the last search.
AddedBeforeSearch == 1..(Len(lastSearch.before) - Len(sampleData))

\* C7, as the code has it: each addProblem appends exactly one entry after
\* the earlier ones, which stay as they were, and a later search whose limit
\* is at least the store size returns a result with the lower-cased problem
\* text and the solution and the category of the call.
C7_AddAppendsLowerCased ==
    /\ AppendedInOrder
    /\ \A k \in DOMAIN added :
          SameFields(problems[Len(sampleData) + k], toLowerCase(added[k].problem), k)
    /\ (lastSearch.called /\ lastSearch.limit >= Len(lastSearch.before)) =>
          \A k \in AddedBeforeSearch :
              \E j \in DOMAIN lastSearch.results :
                  SameFields(lastSearch.results[j], toLowerCase(added[k].problem), k)

\* C7, as stated: the same, the result carrying the problem text as it was
\* given to addProblem.
C7_AddAppendsSameText ==
    /\ AppendedInOrder
    /\ (lastSearch.called /\ lastSearch.limit >= Len(lastSearch.before)) =>
          \A k \in AddedBeforeSearch :
              \E j \in DOMAIN lastSearch.results :
                  SameFields(lastSearch.results[j], added[k].problem, k)

\* An entry added with a text that has an upper-case letter, and a later
\* search of the whole store.
C7_Witness ==
    /\ lastSearch.called
    /\ lastSearch.limit >= Len(lastSearch.before)
    /\ AddedBeforeSearch # {}
    /\ \E k \in AddedBeforeSearch : toLowerCase(added[k].problem) # added[k].problem
    /\ Len(lastSearch.results) = Len(sampleData) + Len(added)

(***************************************************************************)
(* Properties of calculateSimilarity                                       *)
(***************************************************************************)

ZeroNorm(embedding) == \A i \in DOMAIN embedding : embedding[i] = 0

Outcome(similarProblems) ==
    IF isHit(similarProblems) THEN "KnowledgeBaseHit" ELSE "FallbackNeeded"

\* A result sequence that is empty, or whose first score is undefined or
\* not above 0.7.
LowConfidence(similarProblems) ==
    \/ Len(similarProblems) = 0
    \/ Undefined(similarProblems[1].similarity)
    \/ ~AboveThreshold(similarProblems[1].similarity)

\* C9: on the results of any search (any query, the empty string too, and
\* any limit, so empty results too) the routing if yields one of its two
\* outcomes, and the fallback whenever the results are empty or the first
\* score is not above the threshold.
C9_RoutingAlwaysDecides ==
    lastSearch.called =>
        /\ Outcome(lastSearch.results) \in {"KnowledgeBaseHit", "FallbackNeeded"}
        /\ LowConfidence(lastSearch.results)
              => Outcome(lastSearch.results) = "FallbackNeeded"
        /\ ~LowConfidence(lastSearch.results)
              => Outcome(lastSearch.results) = "KnowledgeBaseHit"

\* A search that returned every entry of the enlarged store, none of them
\* good enough: the routing if yields the fallback.
C9_Witness ==
    /\ lastSearch.called
    /\ Len(lastSearch.results) > Len(sampleData)
    /\ LowConfidence(lastSearch.results)
    /\ Outcome(lastSearch.results) = "FallbackNeeded"

(***************************************************************************)
(* Properties of the content guard                                         *)
(***************************************************************************)

\* The input holds a term of the denylist, whatever the case of its letters.
ContainsDenied(input) ==
    \E k \in DOMAIN nonMathKeywords :
        \E i \in 1..Len(input) :
            /\ i + Len(nonMathKeywords[k]) - 1 <= Len(input)
            /\ toLowerCase(SubSeq(input, i, i + Len(nonMathKeywords[k]) - 1))
                  = nonMathKeywords[k]

\* C10: an input that holds a denylisted term is rejected with the reason
\* for inappropriate content, whatever else it holds.
C10_DenylistFirst ==
    (guardCall.state = "done" /\ ContainsDenied(guardCall.input)) =>
        /\ ~guardCall.result.isValid
        /\ guardCall.result.reason = ReasonInappropriate

\* A validated input that holds a denylisted term with an upper-case letter
\* and meets every acceptance rule: a keyword, a symbol, a digit with a
\* single-letter word.
C10_Witness ==
    /\ guardCall.state = "done"
    /\ ContainsDenied(guardCall.input)
    /\ toLowerCase(guardCall.input) # guardCall.input
    /\ hasMathContent(guardCall.input)
    /\ hasSymbols(guardCall.input)
    /\ hasNumbers(guardCall.input)
    /\ hasVariables(guardCall.input)

\* The input holds a term of the allowlist, whatever the case of its letters.
ContainsAllowed(input) ==
    \E k \in DOMAIN mathKeywords :
        \E i \in 1..Len(input) :
            /\ i + Len(mathKeywords[k]) - 1 <= Len(input)
            /\ toLowerCase(SubSeq(input, i, i + Len(mathKeywords[k]) - 1))
                  = mathKeywords[k]

\* The words of the input: the maximal runs of letters, digits and "_".
WordAt(input, i, j) ==
    /\ i <= j
    /\ \A k \in i..j : IsWordChar(input[k])
    /\ (i = 1 \/ ~IsWordChar(input[i - 1]))
    /\ (j = Len(input) \/ ~IsWordChar(input[j + 1]))

HasSingleLetterToken(input) ==
    \E i \in DOMAIN input : WordAt(input, i, i) /\ IsLetter(input[i])

HasDigit(input) == \E i \in DOMAIN input : InSeq(Digits, input[i])

HasSymbol(input) == \E i \in DOMAIN input : input[i] \in mathSymbols

\* C11: an input without a denylisted term is accepted if and only if it
\* holds an allowlisted term, or a mathematical symbol, or both a digit and
\* a single-letter token, and is rejected with the not-a-mathematical-problem
\* reason otherwise; a rejection has a reason and an acceptance has none.
C11_AcceptanceRules ==
    guardCall.state = "done" =>
        /\ ~ContainsDenied(guardCall.input) =>
              /\ guardCall.result.isValid <=>
                    \/ ContainsAllowed(guardCall.input)
                    \/ HasSymbol(guardCall.input)
                    \/ HasDigit(guardCall.input) /\ HasSingleLetterToken(guardCall.input)
              /\ ~guardCall.result.isValid => guardCall.result.reason = ReasonNotMath
        /\ ~guardCall.result.isValid =>
              guardCall.result.reason \in {ReasonInappropriate, ReasonNotMath}
        /\ guardCall.result.isValid => guardCall.result.reason = NoReason

\* A validated input without a denylisted term that holds a digit and no
\* single-letter token, no allowlisted term and no symbol: rejected.
C11_Witness ==
    /\ guardCall.state = "done"
    /\ ~ContainsDenied(guardCall.input)
    /\ HasDigit(guardCall.input)
    /\ ~HasSingleLetterToken(guardCall.input)
    /\ Len(guardCall.input) > 1
    /\ guardCall.result = [isValid |-> FALSE, reason |-> ReasonNotMath]

(***************************************************************************)
(* Properties of the failures of solveProblem                              *)
(***************************************************************************)

\* The requests that ended in the catch of solveProblem.
Failed(r) == req[r].pc = "done" /\ req[r].error # <<>>

FailureRecords ==
    {k \in DOMAIN systemActivities : systemActivities[k].action = "Solution failed"}

\* C12: each failure inside solveProblem has exactly one activity record
\* that describes it, and the message in the record is cut to a bounded
\* length (the length the other details are cut to), so it is not the full
\* message of a longer error.
C12_FailureLoggedTruncated ==
    /\ Cardinality(FailureRecords) = Cardinality({r \in Requests : Failed(r)})
    /\ \A r \in Requests :
          Failed(r) =>
              \E k \in FailureRecords :
                  /\ systemActivities[k].source = "error"
                  /\ systemActivities[k].details.text
                        = substring(req[r].error, DetailsLimit)
    /\ \A k \in FailureRecords :
          Len(systemActivities[k].details.text) <= DetailsLimit

\* C13: a request that ended in the catch is answered with status 400 and
\* the fixed try-again message and nothing else (no solution, no problemId),
\* so two such requests get the same answer whatever their errors were.
C13_GenericFailureOnly ==
    \A r \in Requests :
        Failed(r) =>
            /\ req[r].response =
                  [status |-> 400,
                   error  |-> "Failed to solve the mathematical problem. Please try again or rephrase your question."]
            /\ \A q \in Requests : Failed(q) => req[q].response = req[r].response

\* Two requests for the same problem that failed with different errors.
C13_Witness ==
    \E r, q \in Requests :
        /\ Failed(r) /\ Failed(q)
        /\ req[r].problem = req[q].problem
        /\ req[r].error # req[q].error

\* The requests whose solution is computed, and those answered with an error.
Computed(r) ==
    \/ req[r].pc \in {"kbStored", "webStored", "solverStored"}
    \/ req[r].pc = "done" /\ req[r].response.status = 200

EndedInError(r) == req[r].pc = "done" /\ req[r].response.status = 400

SubmittedRecords ==
    {k \in DOMAIN systemActivities :
        systemActivities[k].action = "Problem submitted"}

\* C14: the storage is written for a request only once its solution is
\* computed, so the Problem records and the "Problem submitted" records are
\* those of the requests with a computed solution, and a request answered
\* with an error has no Problem record and has left no record of its own
\* besides the record of the failure.
C14_NothingLeftOnFailure ==
    /\ Len(mathProblems) = Len(sampleProblems)
                              + Cardinality({r \in Requests : Computed(r)})
    /\ \A r \in Requests : EndedInError(r) => req[r].problemRecord = Nil
    /\ Cardinality(SubmittedRecords) = Cardinality({r \in Requests : Computed(r)})

\* The part of C14 about the Problem records alone: they are the records of
\* the requests with a computed solution, one each, and a request answered
\* with an error has none.
ProblemRecordsOnlyWhenComputed ==
    /\ Len(mathProblems) = Len(sampleProblems)
                              + Cardinality({r \in Requests : Computed(r)})
    /\ \A r \in Requests : EndedInError(r) => req[r].problemRecord = Nil
    /\ \A r \in Requests :
          Computed(r) => \E k \in DOMAIN mathProblems :
                            /\ k > Len(sampleProblems)
                            /\ mathProblems[k] = req[r].problemRecord

(***************************************************************************)
(* Properties of the records, the feedback and the status                  *)
(***************************************************************************)

IsPrefix(s, t) == Len(s) <= Len(t) /\ SubSeq(t, 1, Len(s)) = s

UniqueIds(records) ==
    \A i, j \in DOMAIN records : records[i].id = records[j].id => i = j

RecordsKept ==
    /\ IsPrefix(mathProblems, mathProblems')
    /\ IsPrefix(feedbackEntries, feedbackEntries')
    /\ IsPrefix(systemActivities, systemActivities')

\* C15: the Problem, Feedback and Activity records are append-only with
\* unique identifiers: whatever the server does (solve, feedback, status,
\* listings), every record that existed still exists with the same fields at
\* the same place, so no kind of record ever has fewer records, and no two
\* records of one kind have the same id.
C15_AppendOnlyUniqueIds ==
    /\ [](UniqueIds(mathProblems) /\ UniqueIds(feedbackEntries)
            /\ UniqueIds(systemActivities))
    /\ [][RecordsKept]_vars

\* Records of the three kinds were created, two activities among them, and a
\* history listing was served last.
C15_Witness ==
    /\ Len(mathProblems) > Len(sampleProblems)
    /\ Len(feedbackEntries) > 0
    /\ Len(systemActivities) > 1
    /\ reply.kind = "history"

Succeeded == reply.kind = "feedback" /\ reply.status = 200

HoldsSubmitted(entry, body) ==
    /\ entry.accuracyRating = body.accuracyRating.value
    /\ entry.clarityRating = body.clarityRating.value
    /\ entry.isHelpful = body.isHelpful.value

RoundTrip(body) ==
    LET found == getFeedbackByProblemId(body.problemId)
    IN  /\ \E k \in DOMAIN found : HoldsSubmitted(found[k], body)
        /\ \A k \in DOMAIN found : found[k].problemId = body.problemId

\* C16: once submitFeedback(problemId, f) has succeeded,
\* getFeedbackByProblemId(problemId) has an entry with the accuracyRating,
\* clarityRating and isHelpful submitted (isHelpful as submitted, whatever
\* the rating), and has no entry of another problemId.
C16_FeedbackRoundTrips == Succeeded => RoundTrip(reply.body)

\* The part of C16 for the problemIds that are not the empty string.
RoundTripForNonEmptyIds ==
    (Succeeded /\ reply.body.problemId # EmptyId) => RoundTrip(reply.body)

\* Feedback for problem 1 with rating 1 and isHelpful true has succeeded
\* after feedback for problem 2 was stored.
RoundTripReached ==
    /\ Succeeded
    /\ reply.body.problemId = 1
    /\ reply.body.accuracyRating.value = 1
    /\ reply.body.isHelpful.value
    /\ Len(getFeedbackByProblemId(2)) > 0

ClarityRatings == {"Very Clear", "Somewhat Clear", "Unclear"}

ValidPayload(body) ==
    /\ body.accuracyRating.type = "number"
    /\ body.accuracyRating.value \in 1..5
    /\ body.clarityRating.type = "string"
    /\ body.clarityRating.value \in ClarityRatings

Answered == reply' # reply /\ reply'.kind \in {"feedbackStored", "feedback"}

Refused == reply' # reply /\ reply'.kind = "feedback" /\ reply'.status = 400

\* C17: submitFeedback accepts only a payload whose accuracyRating is an
\* integer in 1..5 and whose clarityRating is "Very Clear", "Somewhat Clear"
\* or "Unclear": any other payload is refused with a validation error, and a
\* refused payload leaves the Feedback and Activity records as they were.
C17_OnlyValidFeedbackAccepted ==
    [][/\ (Answered /\ ~ValidPayload(reply'.body)) => Refused
       /\ Refused => UNCHANGED <<feedbackEntries, systemActivities>>]_vars

\* The part of C17 the schema does enforce: a payload with a field missing is
\* refused, and a refused payload leaves the records as they were.
RefusedLeavesRecords ==
    [][/\ (Answered /\ ~insertFeedbackSchemaAccepts(reply'.body)) => Refused
       /\ Refused => UNCHANGED <<feedbackEntries, systemActivities>>]_vars

\* A Feedback record with a rating outside 1..5 is stored and answered with
\* success.
OutOfRangeStored ==
    /\ Succeeded
    /\ reply.body.accuracyRating.value = 6
    /\ \E k \in DOMAIN feedbackEntries : feedbackEntries[k].accuracyRating = 6

StatusServed == reply' # reply /\ reply'.kind = "status"

\* C18: getStatus is read-only: serving a status request changes no Problem,
\* Feedback or Activity record and no entry of the knowledge store, so the
\* status request that follows with nothing in between returns the same
\* counts and the same recent activity.
C18_StatusReadOnly ==
    [][StatusServed =>
          /\ UNCHANGED <<mathProblems, feedbackEntries, systemActivities, problems>>
          /\ statusFrom(mathProblems', systemActivities') = reply']_vars

\* A status was served with a Problem record added to the counts and with
\* recent activity of two different times.
C18_Witness ==
    /\ reply.kind = "status"
    /\ reply.knowledgeBaseStats.total > Len(sampleProblems)
    /\ Len(reply.recentActivity) > 1
    /\ reply.recentActivity[1].timestamp > reply.recentActivity[2].timestamp
    /\ systemActivities[1].createdAt < systemActivities[Len(systemActivities)].createdAt

(***************************************************************************)
(* Properties of generateSolutionFromSearch                                *)
(***************************************************************************)

Cut(content) == Min(Len(content), SummaryLimit)

Summarizes(text, content) ==
    /\ Len(text) = Cut(content) + Len(Ellipsis)
    /\ \A i \in 1..Cut(content) : text[i] = content[i]
    /\ \A i \in 1..Len(Ellipsis) : text[Cut(content) + i] = "."

\* C19: generateSolutionFromSearch returns a document of exactly one step
\* and no sources when searchResults is empty; otherwise a document of
\* exactly two steps, the first holding the first result's content cut to
\* 200 characters (followed by an ellipsis), and with one title/url pair per
\* result as sources, in the order of the results.
C19_SolutionFromSearch ==
    reply.kind = "webSolution" =>
        IF Len(reply.results) = 0
        THEN /\ reply.solution.steps = 1
             /\ Len(reply.steps) = 1
             /\ reply.solution.sources = <<>>
        ELSE /\ reply.solution.steps = 2
             /\ Len(reply.steps) = 2
             /\ Summarizes(reply.steps[1].content, reply.results[1].content)
             /\ Len(reply.solution.sources) = Len(reply.results)
             /\ \A k \in DOMAIN reply.results :
                   reply.solution.sources[k] =
                       [title |-> reply.results[k].title,
                        url   |-> reply.results[k].url]

\* A document was made from two results of different pages, the first with
\* a content longer than the summary.
C19_Witness ==
    /\ reply.kind = "webSolution"
    /\ Len(reply.results) = 2
    /\ Len(reply.results[1].content) > SummaryLimit
    /\ reply.results[1].title # reply.results[2].title

\* A document was made from no result.
NoResultReached == reply.kind = "webSolution" /\ Len(reply.results) = 0

(***************************************************************************)
(* Properties of generateMockEmbedding                                     *)
(***************************************************************************)

Embedded == reply.kind = "embedding"

SameTextAgain == Embedded /\ reply'.kind = "embedding" /\ reply'.text = reply.text

NoTokens(text) == \A i \in DOMAIN text : text[i] = " "

ZeroVector == [d \in 1..EmbeddingSize |-> 0]

\* C21: a text without tokens, the empty string or spaces only, has the
\* all-zero vector of the embedding size as its embedding.
C21_NoTokensZeroVector ==
    (Embedded /\ NoTokens(reply.text)) => reply.embedding = ZeroVector

\* What the code does with such a text: split(' ') gives one empty piece
\* more than the text has spaces, each piece has hash 0, and the piece at
\* index k adds sin(i + k) to dimension i.
EmptyPiecesEmbedded ==
    (Embedded /\ NoTokens(reply.text)) =>
        /\ Len(reply.embedding) = EmbeddingSize
        /\ \A d \in 1..EmbeddingSize :
              reply.embedding[d] =
                 SumWords([k \in 1..(Len(reply.text) + 1) |-> 0], 1, d - 1)

\* The embedding of the empty string was computed.
EmptyEmbedded == Embedded /\ reply.text = EmptyString /\ reply.embedding # ZeroVector

(***************************************************************************)
(* Properties of the knowledge store over the life of the process          *)
(***************************************************************************)

EntryOf(call) ==
    [problem   |-> toLowerCase(call.problem),
     solution  |-> call.solution,
     category  |-> call.category,
     embedding |-> generateMockEmbedding(call.problem)]

\* C22: in every order of the addProblem and searchSimilarProblems calls
\* the store is its initial entries followed by the entries of the
\* addProblem calls made, one whole entry for each call and in the order of
\* the calls; the store only grows at its end, and every search has read a
\* store that is a prefix of the store of every later state.
C22_StoreConsistent ==
    /\ [](/\ problems = sampleData \o [k \in DOMAIN added |-> EntryOf(added[k])]
          /\ lastSearch.called => IsPrefix(lastSearch.before, problems))
    /\ [][IsPrefix(problems, problems')]_vars

\* Two entries were added, with a search between the two insertions.
C22_Witness ==
    /\ Len(added) = 2
    /\ lastSearch.called
    /\ Len(lastSearch.before) = Len(sampleData) + 1
    /\ Len(problems) = Len(sampleData) + 2

Quadratic == <<"q","u","a","d","r","a","t","i","c">>
Derivative == <<"d","e","r","i","v","a","t","i","v","e">>
Triangle == <<"t","r","i","a","n","g","l","e">>

SeedsInOrder ==
    /\ Len(sampleData) = 3
    /\ sampleData[1].category = "algebra"
    /\ includes(sampleData[1].problem, Quadratic)
    /\ sampleData[2].category = "calculus"
    /\ includes(sampleData[2].problem, Derivative)
    /\ sampleData[3].category = "geometry"
    /\ includes(sampleData[3].problem, Triangle)

\* C23: the store starts with exactly three entries, the quadratic equation
\* (algebra), the derivative (calculus) and the 3-4-5 triangle (geometry), in
\* this order, and nothing is ever deleted: in every state its first three
\* entries are these and the others are the entries added since, so a search
\* with a limit of at least 1 is never empty.
C23_SeedsStay ==
    /\ SeedsInOrder
    /\ Len(problems) = 3 + Len(added)
    /\ \A k \in 1..3 : problems[k] = sampleData[k]
    /\ (lastSearch.called /\ lastSearch.limit >= 1) => Len(lastSearch.results) >= 1

\* A search with limit 1 was made after an entry was added.
C23_Witness ==
    /\ lastSearch.called
    /\ lastSearch.limit = 1
    /\ Len(lastSearch.before) > 3
    /\ Len(lastSearch.results) = 1

(***************************************************************************)
(* Properties of solveProblem on the store as the constructor leaves it    *)
(***************************************************************************)

RoutedQuery(query) == reply.kind = "routed" /\ reply.query = query

\* C24: on the store as the constructor leaves it, solving "solve quadratic
\* equation x^2 + 5x + 6 = 0" takes the knowledge-base path, the similarity
\* of the first result being above 0.7, and the matched entry's category is
\* "algebra".
C24_DocumentedQueryHitsAlgebra ==
    RoutedQuery(QDocumented) =>
        /\ reply.source = "knowledge_base"
        /\ reply.similarProblems[1].similarity > 700
        /\ reply.similarProblems[1].category = "algebra"
        /\ reply.category = "algebra"

\* What the code does with this query: the knowledge-base path, with the
\* geometry entry as the match.
DocumentedQueryHitsGeometry ==
    RoutedQuery(QDocumented) =>
        /\ reply.source = "knowledge_base"
        /\ reply.similarProblems[1].similarity > 700
        /\ reply.category = "geometry"

\* The key phrase of the algebra entry takes the knowledge-base path to it.
KeyPhraseHitsAlgebra ==
    RoutedQuery(SeedKey1) =>
        reply.source = "knowledge_base" /\ reply.category = "algebra"

\* The query of the documentation was routed.
DocumentedQueryRouted == RoutedQuery(QDocumented)

(***************************************************************************)
(* Properties of one pass of solveProblem                                  *)
(***************************************************************************)

Returned(r) == req[r].pc = "done" /\ req[r].response.status = 200

KnowledgeBasePass ==
    <<"validateMathematicalContent", "createActivity", "searchSimilarProblems",
      "createMathProblem", "createActivity">>

WebSearchPass ==
    <<"validateMathematicalContent", "createActivity", "searchSimilarProblems",
      "searchMathematicalContent", "generateSolutionFromSearch",
      "createMathProblem", "createActivity">>

RecordsWithId(id) == {k \in DOMAIN mathProblems : mathProblems[k].id = id}

ActivitiesNamed(action) ==
    {k \in DOMAIN systemActivities : systemActivities[k].action = action}

\* C25: a solve request that returns has made one pass in this order: the
\* guard, the "Problem submitted" record, the search of the knowledge store,
\* (on the fallback path the web search,) one Problem record, one "Solution
\* found" record. The problemId returned is the id of that Problem record
\* and of no other, and the record has the text of the request; there are as
\* many "Solution found" records as requests that returned and as many
\* Problem records as requests that stored one, however the requests
\* interleave.
C25_OnePassInOrder ==
    /\ \A r \in Requests :
          Returned(r) =>
             /\ req[r].calls \in {KnowledgeBasePass, WebSearchPass}
             /\ req[r].response.problemId = req[r].problemRecord.id
             /\ req[r].problemRecord.problem = req[r].problem
             /\ \E k \in DOMAIN mathProblems : mathProblems[k] = req[r].problemRecord
             /\ Cardinality(RecordsWithId(req[r].response.problemId)) = 1
    /\ Cardinality(ActivitiesNamed("Solution found"))
          = Cardinality({r \in Requests : Returned(r)})
    /\ Len(mathProblems) - Len(sampleProblems)
          = Cardinality({r \in Requests : Routed(r)})

\* Two requests for different texts have returned, the second having stored
\* its Problem record after the first stored its own and before the first
\* logged "Solution found".
C25_Witness ==
    /\ Returned(1) /\ Returned(2)
    /\ req[1].problem # req[2].problem
    /\ req[1].problemRecord.id < req[2].problemRecord.id
    /\ \E k \in ActivitiesNamed("Solution found") :
          /\ systemActivities[k].id > req[2].problemRecord.id
          /\ systemActivities[k].source = req[1].problemRecord.source
          /\ req[1].problemRecord.source # req[2].problemRecord.source

(***************************************************************************)
(* Properties of the counts of getKnowledgeBaseStats                       *)
(***************************************************************************)

StatsServed == reply.kind = "status"

CountedCategories == {"calculus", "algebra", "geometry", "statistics"}

SumOfCounts(stats) ==
    stats.calculus + stats.algebra + stats.geometry + stats.statistics

\* The counts a status request returns are those of the Problem records it
\* read: the total is their number and each category count is the number of
\* records of that category.
CountsMatchStorage ==
    [][reply'.kind = "status" /\ reply' # reply =>
          LET stats == reply'.knowledgeBaseStats
          IN  /\ stats.total = Len(mathProblems)
              /\ stats.calculus = Cardinality({k \in DOMAIN mathProblems :
                                       mathProblems[k].category = "calculus"})
              /\ stats.algebra = Cardinality({k \in DOMAIN mathProblems :
                                       mathProblems[k].category = "algebra"})
              /\ stats.geometry = Cardinality({k \in DOMAIN mathProblems :
                                       mathProblems[k].category = "geometry"})
              /\ stats.statistics = Cardinality({k \in DOMAIN mathProblems :
                                       mathProblems[k].category = "statistics"})]_vars

CountsMissUncounted ==
    [][reply'.kind = "status" /\ reply' # reply =>
          reply'.knowledgeBaseStats.total - SumOfCounts(reply'.knowledgeBaseStats)
             = Cardinality({k \in DOMAIN mathProblems :
                               mathProblems[k].category \notin CountedCategories})]_vars

JustSearched(r) == req[r].pc = "searched"

\* C27: whatever solve, feedback, status, activity and history requests the
\* server has handled, the knowledge store holds its three initial entries
\* and nothing else, so the search a solve request makes returns what the
\* initial store gives for its text, at whatever point it is made.
C27_StoreUntouchedByServer ==
    /\ problems = sampleData
    /\ \A r \in ServerRequests :
          JustSearched(r) =>
             req[r].similarProblems = searchResults(sampleData, req[r].problem, 3)

\* A solve request returned after a feedback entry was stored and records
\* were listed; a history request was answered last.
C27_Witness ==
    /\ Returned(1)
    /\ feedbackEntries # <<>>
    /\ Len(mathProblems) > Len(sampleProblems)
    /\ reply.kind = "history"
    /\ problems = sampleData

(***************************************************************************)
(* Properties of the entries' embeddings                                   *)
(***************************************************************************)

OwnEntry(query) ==
    CHOOSE k \in DOMAIN sampleData : sampleData[k].problem = query

StoredTexts == {sampleData[k].problem : k \in DOMAIN sampleData}

ScoreOf(similarProblems, problem) ==
    LET k == CHOOSE j \in DOMAIN similarProblems :
                  similarProblems[j].problem = problem
    IN  similarProblems[k].similarity

\* C28: a search with the exact problem text of a stored entry scores that
\* entry with similarity 1 (in thousandths, rounding apart) and returns it
\* first.
C28_OwnTextScoresOne ==
    \A query \in StoredTexts :
        RoutedQuery(query) =>
            /\ reply.similarProblems[1].problem = query
            /\ reply.similarProblems[1].similarity >= 990

\* What the search returns for the texts of the three initial entries: the
\* first scores -0.812 against its own entry, which comes last, behind the
\* geometry entry at 0.921; the second finds its own entry first, at 0.996,
\* not 1; the third finds its own entry first at 0.120, below the threshold.
SeedTextsScored ==
    /\ RoutedQuery(SeedProblem1) =>
          /\ reply.similarProblems[1].category = "geometry"
          /\ reply.similarProblems[3].problem = SeedProblem1
          /\ ScoreOf(reply.similarProblems, SeedProblem1) < -800
    /\ RoutedQuery(SeedProblem2) =>
          /\ reply.similarProblems[1].problem = SeedProblem2
          /\ ScoreOf(reply.similarProblems, SeedProblem2) \in 990..999
    /\ RoutedQuery(SeedProblem3) =>
          /\ reply.similarProblems[1].problem = SeedProblem3
          /\ ScoreOf(reply.similarProblems, SeedProblem3) \in 100..140
          /\ reply.source = "web_search"

\* The text of the algebra entry was searched for and the entry came last.
OwnTextRankedLast ==
    /\ RoutedQuery(SeedProblem1)
    /\ reply.similarProblems[3].problem = SeedProblem1
    /\ reply.similarProblems[3].similarity < 0

\* An entry addProblem stored has the embedding of its own stored text.
InsertedEmbedOwnText ==
    \A k \in DOMAIN problems :
        k > Len(sampleData) =>
            problems[k].embedding = generateMockEmbedding(problems[k].problem)

(***************************************************************************)
(* Properties of the history listing                                       *)
(***************************************************************************)

\* A step of GET /api/history with no category.
ListsAll ==
    /\ reply'.kind = "history" /\ reply'.category \in {"", "all"}
    /\ UNCHANGED <<mathProblems, systemActivities, feedbackEntries, req, now>>

Listed(record, listing) == {k \in DOMAIN listing : listing[k] = record}

NewestFirst(listing) ==
    \A i, j \in DOMAIN listing :
        i < j => listing[i].createdAt >= listing[j].createdAt

HistoryListsFiveCategories ==
    [][ListsAll =>
          /\ \A k \in DOMAIN mathProblems :
                Cardinality(Listed(mathProblems[k], reply'.problems))
                   = IF mathProblems[k].category
                          \in {historyCategories[c] : c \in DOMAIN historyCategories}
                     THEN 1 ELSE 0
          /\ \A k \in DOMAIN reply'.problems :
                \E j \in DOMAIN mathProblems : mathProblems[j] = reply'.problems[k]
          /\ NewestFirst(reply'.problems)]_vars

TwoStepDocument(solution) ==
    /\ solution.steps = 2
    /\ solution.sources # <<>>
    /\ solution = generateSolutionFromSearch(<<>>, mockResults)

NoSolutionDocument(solution) ==
    solution.steps = 1 /\ solution.sources = <<>>

\* C30: on the fallback path the web search returns a non-empty list, so the
\* solution stored and returned is the document of two steps with a
\* non-empty list of sources, under category "advanced"; no record solve
\* stored holds the document of one step.
C30_FallbackHasSources ==
    /\ \A r \in Requests :
          Routed(r) /\ TookWebSearch(r) =>
             /\ req[r].searchResults # <<>>
             /\ TwoStepDocument(req[r].webSolution)
             /\ req[r].problemRecord.solution = req[r].webSolution
             /\ req[r].problemRecord.category = "advanced"
             /\ Returned(r) =>
                   /\ req[r].response.solution = req[r].webSolution
                   /\ req[r].response.category = "advanced"
    /\ \A k \in DOMAIN mathProblems :
          mathProblems[k].source = "web_search" =>
             /\ TwoStepDocument(mathProblems[k].solution)
             /\ ~NoSolutionDocument(mathProblems[k].solution)
             /\ mathProblems[k].category = "advanced"

\* A request returned on the fallback path with two sources.
C30_Witness ==
    \E r \in Requests :
        /\ Returned(r) /\ TookWebSearch(r)
        /\ Len(req[r].response.solution.sources) = 2
        /\ req[r].response.source = "web_search"

====
